---------------------------- MODULE Spec2Model ----------------------------
(***************************************************************************)
(* Model of the processors of imanolooo/modules:                           *)
(*   VortexStatistics (constructor callbacks and process()), translated    *)
(*   from src/topovis/topologytoolkit/src/processors/morsesmalecomplex.cpp *)
(*   lines 151-586;                                                        *)
(*   MorseSmaleComplex (process() with its pool task and front-thread      *)
(*   callback), from the same file, lines 57-100;                          *)
(*   MorseSmaleComplexToMesh (process() and picking()), from               *)
(*   src/unnamed/part_000 lines 48-235.                                    *)
(*                                                                         *)
(* Numbers.  int columns are Int.  float columns that the code divides     *)
(* (Surface, Avg, Surface Aspect Ratio, Surface Avg Radius) are exact      *)
(* rationals <<n, d>> in lowest terms, d > 0; <<0, 0>> is NaN.  The other  *)
(* float columns only ever hold sums, minima and maxima of integer samples *)
(* and are Int.  size_t arithmetic wraps modulo SizeTMod.                  *)
(***************************************************************************)
EXTENDS Integers, Sequences, FiniteSets, TLC

\* ------------------------------------------------------------- bounds
\* longest mask / scalar series (number of timesteps)
MaxTime == 2
\* largest mask value stored in a voxel
MaxMask == 2
\* largest group count of a vortex hierarchy
MaxGroups == 3

\* the largest number of components of a volume in the runs over
\* component counts
MaxComps == 3

\* the largest number of points (critical and separatrix) of a complex
MaxPoints == 2

\* the largest number of inputs supplied to MorseSmaleComplex
MaxInputs == 3

\* AssembleWindingAngle::SEED_DEPTH, the z-layer of the surface samples
SEED_DEPTH == 1

\* size_t wraps around; the model keeps the wrap-around at a width that
\* fits the model checker's integers
SizeTMod == 2 ^ 30

\* ---------------------------------------------------------- arithmetic
Abs(x) == IF x < 0 THEN -x ELSE x

Min2(a, b) == IF a <= b THEN a ELSE b

Max2(a, b) == IF a >= b THEN a ELSE b

RECURSIVE Gcd(_, _)
Gcd(a, b) == IF b = 0 THEN a ELSE Gcd(b, a % b)

NaN == <<0, 0>>

IsNaN(q) == q[2] = 0

\* the rational n / d in lowest terms; NaN when d = 0 (0/0 and x/0 are
\* both non-finite)
Rat(n, d) ==
    IF d = 0 THEN NaN
    ELSE LET s == IF d < 0 THEN -1 ELSE 1
             k == Gcd(Abs(n), Abs(d))
         IN  <<(s * n) \div k, (s * d) \div k>>

RInt(n) == <<n, 1>>

RAdd(p, q) ==
    IF IsNaN(p) \/ IsNaN(q) THEN NaN
    ELSE Rat(p[1] * q[2] + q[1] * p[2], p[2] * q[2])

\* float /= int
RDivInt(p, k) == IF IsNaN(p) THEN NaN ELSE Rat(p[1], p[2] * k)

\* glm::distance of two points whose distance is an integer
ISqrt(n) == CHOOSE r \in 0..n : r * r <= n /\ (r + 1) * (r + 1) > n

Distance(a, b) ==
    ISqrt((a[1] - b[1]) * (a[1] - b[1]) + (a[2] - b[2]) * (a[2] - b[2]))

\* static_cast<size_t>(double): a negative double is undefined behaviour,
\* the build yields 0 or the largest value (neg is the build's outcome)
CastToSizeT(d, neg) == IF d < 0 THEN neg ELSE d

\* unsigned subtraction
SubSizeT(a, b) == (a - b + SizeTMod) % SizeTMod

\* ------------------------------------------------------------- volumes
\* a voxel position is <<x, y, z>>, dimensions are <<X, Y, Z>>
NumVox(dims) == dims[1] * dims[2] * dims[3]

\* VolumeRAM::posToIndex
posToIndex(idx, dims) == idx[1] + idx[2] * dims[1] + idx[3] * dims[1] * dims[2]

\* the position visited i-th by util::forEachVoxel (x runs fastest)
VoxelAt(i, dims) ==
    <<i % dims[1], (i \div dims[1]) % dims[2], i \div (dims[1] * dims[2])>>


\* VolumeRAM::getAsDVec4(idx)[s]: components the format lacks read as 0; a
\* position outside the volume is an out-of-bounds read, modelled as 0
Sample(vol, idx, s) ==
    LET i == posToIndex(idx, vol.dims)
    IN  IF i \in DOMAIN vol.data /\ s < vol.comps THEN vol.data[i][s + 1] ELSE 0

\* ------------------------------------------------------------- vortices
\* first record of a group whose heightSlice is the seed depth (0 if none);
\* the lookup does not depend on the timestep
SeedRecord(recs) ==
    IF \E k \in 1..Len(recs) : recs[k].heightSlice = SEED_DEPTH
    THEN CHOOSE k \in 1..Len(recs) :
            /\ recs[k].heightSlice = SEED_DEPTH
            /\ \A j \in 1..(k - 1) : recs[j].heightSlice # SEED_DEPTH
    ELSE 0

\* VortexSet::getParentGroup of a vortex record
getParentGroup(rec) == rec.parentGroup

\* -------------------------------------------------------------- tables
Column(n, initVal) == [r \in 0..(n - 1) |-> initVal]

\* the per-group table (perEnsembleData): every column of numGroups rows
PerGroupColumns(numGroups, numTimeSteps, nNames, nTopNames, ens) ==
    [ Ensemble     |-> Column(numGroups, ens),
      VortexID     |-> Column(numGroups, 0),
      NumVoxels    |-> Column(numGroups, 0),
      NumTopVoxels |-> Column(numGroups, 0),
      MaxDepth     |-> Column(numGroups, 0),
      AspectRatio  |-> Column(numGroups, RInt(0)),
      AvgRadius    |-> Column(numGroups, RInt(0)),
      LifeTime     |-> Column(numGroups, 0),
      StartTime    |-> Column(numGroups, numTimeSteps),
      Rotation     |-> Column(numGroups, 0),
      StartX       |-> Column(numGroups, 0),
      StartY       |-> Column(numGroups, 0),
      EndX         |-> Column(numGroups, 0),
      EndY         |-> Column(numGroups, 0),
      Travel       |-> Column(numGroups, 0),
      Surface      |-> [s \in 0..(nNames - 1) |-> Column(numGroups, RInt(0))],
      Avg          |-> [s \in 0..(nNames - 1) |-> Column(numGroups, RInt(0))],
      Min          |-> [s \in 0..(nNames - 1) |-> Column(numGroups, 0)],
      Max          |-> [s \in 0..(nNames - 1) |-> Column(numGroups, 0)],
      TopExtreme   |-> [s \in 0..(nTopNames - 1) |-> Column(numGroups, 0)],
      TopMin       |-> [s \in 0..(nTopNames - 1) |-> Column(numGroups, 0)],
      TopMax       |-> [s \in 0..(nTopNames - 1) |-> Column(numGroups, 0)] ]

\* the per-group-per-time table (perVortexData): numGroupTimeSteps rows;
\* the header of CenterY is "Center X" as well
PerGroupPerTimeColumns(numGroupTimeSteps, nNames, nTopNames, ens) ==
    [ Ensemble     |-> Column(numGroupTimeSteps, ens),
      VortexID     |-> Column(numGroupTimeSteps, 0),
      Time         |-> Column(numGroupTimeSteps, 0),
      NumVoxels    |-> Column(numGroupTimeSteps, 0),
      NumTopVoxels |-> Column(numGroupTimeSteps, 0),
      MaxDepth     |-> Column(numGroupTimeSteps, 0),
      AspectRatio  |-> Column(numGroupTimeSteps, RInt(0)),
      AvgRadius    |-> Column(numGroupTimeSteps, RInt(0)),
      CenterX      |-> Column(numGroupTimeSteps, 0),
      CenterY      |-> Column(numGroupTimeSteps, 0),
      Surface      |-> [s \in 0..(nNames - 1) |-> Column(numGroupTimeSteps, RInt(0))],
      Avg          |-> [s \in 0..(nNames - 1) |-> Column(numGroupTimeSteps, RInt(0))],
      Min          |-> [s \in 0..(nNames - 1) |-> Column(numGroupTimeSteps, 0)],
      Max          |-> [s \in 0..(nNames - 1) |-> Column(numGroupTimeSteps, 0)],
      TopExtreme   |-> [s \in 0..(nTopNames - 1) |-> Column(numGroupTimeSteps, 0)],
      TopMin       |-> [s \in 0..(nTopNames - 1) |-> Column(numGroupTimeSteps, 0)],
      TopMax       |-> [s \in 0..(nTopNames - 1) |-> Column(numGroupTimeSteps, 0)] ]

\* the lazily initialised running minimum / maximum / extremum
assignMin(vecVal, val) == Min2(IF vecVal = 0 THEN val ELSE vecVal, val)

assignMax(vecVal, val) == Max2(IF vecVal = 0 THEN val ELSE vecVal, val)

assignExtremum(vecVal, val) ==
    IF vecVal = 0 THEN val
    ELSE IF Abs(val) > Abs(vecVal) THEN val ELSE vecVal

\* ---------------------------------------------------------------- state
\* A port is <<>> without data and <<d>> holding d.  A mask or scalar
\* series is a sequence of volumes, one per timestep.
VARIABLES
    doAssemble_,          \* the pending trigger
    maskVolumeIn_,        \* inport: series of mask volumes [dims, data, rangeY]
    scalarVolumesIn_,     \* inport: series of scalar volumes [dims, comps, data]
    topScalarVolumesIn_,  \* inport: the surface volume [dims, comps, data]
    vorticesIn_,          \* inport: the hierarchy [numGroups, groups]
    scalarNames_,         \* list property: the declared scalar names
    topScalarNames_,      \* list property: the declared top-scalar names
    ensembleMember_,      \* property
    skipLastGroup_,       \* property
    dataOut_,             \* outport: the per-group table
    perGroupDataOut_,     \* outport: the per-group-per-time table
    log,                  \* what the last evaluation of process() logged
    outcome,              \* history: how the last evaluation of process() ended
    numGroupsOfRun,       \* history: numGroups of the last run
    trace                 \* history: the columns after each pass of the last run

\* MorseSmaleComplexToMesh.  The complex on its inport is known here by its
\* numbers of critical points and of separatrix points.
VARIABLES
    mscInport_,           \* inport: the complex [numcp, numsep]
    enablePicking_,       \* property pickingProperties_.enablePicking_
    pickingMapper_,       \* the number of picking ids the mapper holds
    meshOutport_,         \* outport: the mesh [numcp, positions, picking]
    pickedNodeIndices_,   \* the list of picked indices
    meshAlive,            \* history: no picking() has crashed
    lastPick,             \* history: the last toggle: its index, whether the
                          \* lookup was in range, the list before it, whether
                          \* the toggle before it had the same index (again)
                          \* and the list before the two (start)
    pickedOdd             \* history: the indices toggled an odd number of times

meshVars == <<mscInport_, enablePicking_, pickingMapper_, meshOutport_,
              pickedNodeIndices_, meshAlive, lastPick, pickedOdd>>

\* part_000 lines 49-60: the mesh processor after construction; the picking
\* mapper is constructed with one id
MeshConstructed ==
    /\ mscInport_ = <<>>
    /\ enablePicking_ = FALSE
    /\ pickingMapper_ = 1
    /\ meshOutport_ = <<>>
    /\ pickedNodeIndices_ = <<>>
    /\ meshAlive = TRUE
    /\ lastPick = <<>>
    /\ pickedOdd = {}

\* MorseSmaleComplex.  A triangulation is known by the number of the input
\* that carried it, and a complex by the triangulation it was computed from.
VARIABLES
    inport_,              \* inport: the triangulation
    outport_,             \* outport: the complex
    pool,                 \* the background tasks queued or running
    front,                \* the callbacks queued for the front thread
    supplied,             \* history: the number of inputs supplied so far
    invoked               \* history: the inputs process() was invoked with

mscVars == <<inport_, outport_, pool, front, supplied, invoked>>

\* morsesmalecomplex.cpp lines 57-62: the processor after construction
MscConstructed ==
    /\ inport_ = <<>>
    /\ outport_ = <<>>
    /\ pool = {}
    /\ front = <<>>
    /\ supplied = 0
    /\ invoked = <<>>

\* the processors are separate objects: a step of one leaves the others alone
otherProcessors == <<meshVars, mscVars>>

OtherProcessorsConstructed == MeshConstructed /\ MscConstructed

\* ------------------------------------------------------------ one run
\* The working state c of a run holds the columns (c.g per group, c.gt per
\* group and time), prevCenters (c.prev), whether the run is still going
\* (c.status), whether the seed-depth warning was logged (c.warn) and a
\* history of the columns before and after each pass (c.trace).
\*
\* K holds the values process() fixes before its loops: numGroups,
\* numTimeSteps, volumeDims, numScalars, numTopScalars and the numbers of
\* declared names.  ub is what the build makes of undefined behaviour:
\* ub.null = "crash" or "skip" for an access through a null column pointer
\* or past the end of a vector, ub.neg for the cast of a negative double,
\* ub.assertions for ivwAssert being compiled in.

\* the statements of the code run one after the other: F applied to the
\* value of v
Then(v, F(_)) == CHOOSE r \in {F(x) : x \in {v}} : TRUE

\* the per-time row of (group, time)
IdxGroupTime(K, time, group) == K.numGroups * time + group

\* a test that lets the id numGroups through
ValidGroupIdUpToNumGroups(K, id) == ~(id <= 0) /\ ~(id > K.numGroups)

\* whether a mask value is the id of a tracked group (lines 393-397)
ValidGroupId(K, id) == ~(id <= 0) /\ ~(id >= K.numGroups)

\* a life time counted from timestep 0
UpdateLifeTimeFromZero(c, time, group) ==
    LET start == Min2(c.g.StartTime[group], time)
    IN  [c EXCEPT !.g.StartTime[group] = start, !.g.LifeTime[group] = time]

\* lines 401-402
UpdateLifeTime(c, time, group) ==
    LET start == Min2(c.g.StartTime[group], time)
    IN  [c EXCEPT !.g.StartTime[group] = start, !.g.LifeTime[group] = time - start]

\* the row of the per-group 'Num Voxels' column that line 406 increments
\* after row group
VoxelCountRow(K, time, group) == IdxGroupTime(K, time, group)

\* lines 405-406: both increments go to the per-group column;
\* std::vector::at throws std::out_of_range past its last row
CountVoxel(c, K, time, group) ==
    LET row == VoxelCountRow(K, time, group)
    IN  IF row >= K.numGroups
        THEN [c EXCEPT !.g.NumVoxels[group] = @ + 1, !.status = "threw"]
        ELSE [c EXCEPT !.g.NumVoxels[group] = @ + 1, !.g.NumVoxels[row] = @ + 1]

\* lines 407-423: depth, sums, minima and maxima of the scalar channels
AccumulateVoxel(c, in, K, time, idx, group) ==
    LET igt == IdxGroupTime(K, time, group)
        sv  == in.scal[time + 1]
    IN  [c EXCEPT
          !.g.MaxDepth[group] = assignMax(@, idx[3]),
          !.gt.MaxDepth[igt] = assignMax(@, idx[3]),
          !.g.Avg = [s \in DOMAIN @ |->
              IF s < K.numScalars
              THEN [@[s] EXCEPT ![group] = RAdd(@, RInt(Sample(sv, idx, s)))]
              ELSE @[s]],
          !.gt.Avg = [s \in DOMAIN @ |->
              IF s < K.numScalars
              THEN [@[s] EXCEPT ![igt] = RAdd(@, RInt(Sample(sv, idx, s)))]
              ELSE @[s]],
          !.g.Min = [s \in DOMAIN @ |->
              IF s < K.numScalars
              THEN [@[s] EXCEPT ![group] = assignMin(@, Sample(sv, idx, s))]
              ELSE @[s]],
          !.gt.Min = [s \in DOMAIN @ |->
              IF s < K.numScalars
              THEN [@[s] EXCEPT ![igt] = assignMin(@, Sample(sv, idx, s))]
              ELSE @[s]],
          !.g.Max = [s \in DOMAIN @ |->
              IF s < K.numScalars
              THEN [@[s] EXCEPT ![group] = assignMax(@, Sample(sv, idx, s))]
              ELSE @[s]],
          !.gt.Max = [s \in DOMAIN @ |->
              IF s < K.numScalars
              THEN [@[s] EXCEPT ![igt] = assignMax(@, Sample(sv, idx, s))]
              ELSE @[s]]]

\* lines 427-432: counts and sums of a voxel on the seed depth
AccumulateSurfaceVoxel(c, in, K, time, idx, group) ==
    LET igt == IdxGroupTime(K, time, group)
        sv  == in.scal[time + 1]
    IN  [c EXCEPT
          !.g.NumTopVoxels[group] = @ + 1,
          !.gt.NumTopVoxels[igt] = @ + 1,
          !.g.Surface = [s \in DOMAIN @ |->
              IF s < K.numScalars
              THEN [@[s] EXCEPT ![group] = RAdd(@, RInt(Sample(sv, idx, s)))]
              ELSE @[s]],
          !.gt.Surface = [s \in DOMAIN @ |->
              IF s < K.numScalars
              THEN [@[s] EXCEPT ![igt] = RAdd(@, RInt(Sample(sv, idx, s)))]
              ELSE @[s]]]

\* lines 435-448: the extremum / min / max updates go through colTopScalars,
\* whose entries were never bound to their columns (line 338 fills a copy):
\* with at least one top scalar this is a null access
TopScalarSampling(c, K, ub) ==
    IF K.numTopScalars = 0 THEN c
    ELSE IF ub.null = "crash" THEN [c EXCEPT !.status = "crashed"]
    ELSE c

\* lines 391-449: the callback of one voxel, idx, of timestep time
indexCallback(c, in, K, time, idx, ub) ==
    LET mi    == posToIndex(idx, K.volumeDims)
        mdata == in.mask[time + 1].data
        id    == IF mi \in DOMAIN mdata THEN mdata[mi] ELSE 0
        group == id - 1
    IN  IF c.status # "ok" \/ ~ValidGroupId(K, id) THEN c
        ELSE
        Then(UpdateLifeTime(c, time, group), LAMBDA c1 :
        Then(CountVoxel(c1, K, time, group), LAMBDA c2 :
            IF c2.status # "ok" THEN c2
            \* colScalars[s] past the declared names
            ELSE IF K.numScalars > K.nNames /\ ub.null = "crash"
            THEN [c2 EXCEPT !.status = "crashed"]
            ELSE
        Then(AccumulateVoxel(c2, in, K, time, idx, group), LAMBDA c3 :
            IF idx[3] # SEED_DEPTH THEN c3
            ELSE
        Then(AccumulateSurfaceVoxel(c3, in, K, time, idx, group), LAMBDA c4 :
            TopScalarSampling(c4, K, ub)))))

\* util::forEachVoxel(*maskVolume, indexCallback): voxels i..last of the
\* mask volume of timestep time, in storage order
RECURSIVE forEachVoxel(_, _, _, _, _, _)
forEachVoxel(c, in, K, time, i, ub) ==
    LET dims == in.mask[time + 1].dims
    IN  IF i >= NumVox(dims) \/ c.status # "ok" THEN c
        ELSE Then(indexCallback(c, in, K, time, VoxelAt(i, dims), ub), LAMBDA d :
                  forEachVoxel(d, in, K, time, i + 1, ub))

\* ------------------------------------------- per-timestep finalize pass
\* a row that records its group but not its timestep
RecordRowWithoutTime(c, time, group, igt) ==
    [c EXCEPT !.gt.VortexID[igt] = group]

\* lines 455-456
RecordRow(c, time, group, igt) ==
    [c EXCEPT !.gt.Time[igt] = time, !.gt.VortexID[igt] = group]

\* lines 458-469: the per-time sums of the row become averages
DivideRow(c, K, igt) ==
    LET m == c.gt.NumTopVoxels[igt]
        n == c.gt.NumVoxels[igt]
    IN  [c EXCEPT
          !.gt.Surface = [s \in DOMAIN @ |->
              IF s < K.numScalars /\ m > 0
              THEN [@[s] EXCEPT ![igt] = RDivInt(@, m)] ELSE @[s]],
          !.gt.Avg = [s \in DOMAIN @ |->
              IF s < K.numScalars /\ n > 0
              THEN [@[s] EXCEPT ![igt] = RDivInt(@, n)] ELSE @[s]]]

\* line 484: the per-time row that receives the child's values
ParentGroupTime(K, time, group, parentGroup) == K.numGroups * time + group

\* line 483: whether the values of group are added to parentGroup
HasParent(group, parentGroup) == parentGroup >= 0 /\ parentGroup < group

\* lines 485-492: the voxel and surface-voxel counts
AddCountsToParent(c, igt, pgt, parentGroup) ==
    [c EXCEPT !.g.NumVoxels[parentGroup] = @ + c.gt.NumVoxels[igt],
              !.gt.NumVoxels[pgt] = @ + c.gt.NumVoxels[igt],
              !.g.NumTopVoxels[parentGroup] = @ + c.gt.NumTopVoxels[igt],
              !.gt.NumTopVoxels[pgt] = @ + c.gt.NumTopVoxels[igt]]

\* lines 496-514 for channel s: sums, minima and maxima of the scalars
AddScalarToParent(c, s, group, igt, pgt, parentGroup) ==
    [c EXCEPT !.g.Surface[s][parentGroup] = RAdd(@, c.gt.Surface[s][igt]),
              !.gt.Surface[s][pgt] = RAdd(@, c.gt.Surface[s][igt]),
              !.g.Avg[s][parentGroup] = RAdd(@, c.gt.Avg[s][igt]),
              !.gt.Avg[s][pgt] = RAdd(@, c.gt.Avg[s][igt]),
              !.g.Min[s][parentGroup] = assignMin(@, c.g.Min[s][group]),
              !.gt.Min[s][pgt] = assignMin(@, c.gt.Min[s][igt]),
              !.g.Max[s][parentGroup] = assignMax(@, c.g.Max[s][group]),
              !.gt.Max[s][pgt] = assignMax(@, c.gt.Max[s][igt])]

\* lines 495-531: the loop over the scalar channels; lines 516-530 index
\* colTopScalars with the scalar channel and go through its unbound
\* entries, so every channel ends in a null access
RECURSIVE AddScalarsToParent(_, _, _, _, _, _, _, _)
AddScalarsToParent(c, K, s, group, igt, pgt, parentGroup, ub) ==
    IF s >= K.numScalars \/ c.status # "ok" THEN c
    ELSE IF s >= K.nNames
    THEN IF ub.null = "crash" THEN [c EXCEPT !.status = "crashed"] ELSE c
    ELSE Then(AddScalarToParent(c, s, group, igt, pgt, parentGroup), LAMBDA c1 :
            IF ub.null = "crash" THEN [c1 EXCEPT !.status = "crashed"]
            ELSE AddScalarsToParent(c1, K, s + 1, group, igt, pgt, parentGroup, ub))

\* lines 481-532
AddToParent(c, K, time, group, parentGroup, ub) ==
    IF ~HasParent(group, parentGroup) THEN c
    ELSE LET igt == IdxGroupTime(K, time, group)
             pgt == ParentGroupTime(K, time, group, parentGroup)
         IN  Then(AddCountsToParent(c, igt, pgt, parentGroup), LAMBDA c1 :
                  AddScalarsToParent(c1, K, 0, group, igt, pgt, parentGroup, ub))

\* an aspect ratio taken as minRadius / maxRadius
RecordRadiiInverted(c, igt, group, vortex) ==
    LET ratio == Rat(vortex.minRadius, vortex.maxRadius)
    IN  [c EXCEPT
          !.gt.AspectRatio[igt] = ratio,
          !.g.AspectRatio[group] = IF IsNaN(ratio) THEN @ ELSE RAdd(@, ratio),
          !.gt.AvgRadius[igt] = RInt(vortex.avgRadius),
          !.g.AvgRadius[group] = RAdd(@, RInt(vortex.avgRadius))]

\* lines 534-542
RecordRadii(c, igt, group, vortex) ==
    LET ratio == Rat(vortex.maxRadius, vortex.minRadius)
    IN  [c EXCEPT
          !.gt.AspectRatio[igt] = ratio,
          !.g.AspectRatio[group] = IF IsNaN(ratio) THEN @ ELSE RAdd(@, ratio),
          !.gt.AvgRadius[igt] = RInt(vortex.avgRadius),
          !.g.AvgRadius[group] = RAdd(@, RInt(vortex.avgRadius))]

\* lines 544-545
RecordRotation(c, group, vortex) ==
    [c EXCEPT !.g.Rotation[group] = IF vortex.rotation = "Clockwise" THEN 0 ELSE 1]

\* lines 547-560
RecordCenter(c, time, igt, group, vortex) ==
    IF time # c.g.StartTime[group]
    THEN [c EXCEPT !.gt.CenterX[igt] = vortex.center[1],
                   !.gt.CenterY[igt] = vortex.center[2],
                   !.g.Travel[group] = @ + Distance(vortex.center, c.prev[group]),
                   !.prev[group] = vortex.center,
                   !.g.EndX[group] = vortex.center[1],
                   !.g.EndY[group] = vortex.center[2]]
    ELSE [c EXCEPT !.gt.CenterX[igt] = vortex.center[1],
                   !.gt.CenterY[igt] = vortex.center[2],
                   !.g.StartX[group] = vortex.center[1],
                   !.g.StartY[group] = vortex.center[2]]

\* the history entry of a pass: the columns before (pre) and after it
Snapshot(c, phase, time, group, pre) ==
    [c EXCEPT !.trace = Append(@, [phase |-> phase, time |-> time, group |-> group,
                                   status |-> c.status,
                                   pre |-> [g |-> pre.g, gt |-> pre.gt],
                                   g |-> c.g, gt |-> c.gt])]

\* lines 454-560: the body of the group loop for one group
FinalizeGroup(c, in, K, time, group, ub) ==
    LET igt    == IdxGroupTime(K, time, group)
        known  == group < in.vort.numGroups
        k      == IF known THEN SeedRecord(in.vort.groups[group]) ELSE 0
        vortex == in.vort.groups[group][k]
    IN  IF c.status # "ok" THEN c
        ELSE
        Then(RecordRow(c, time, group, igt), LAMBDA c1 :
        Then(DivideRow(c1, K, igt), LAMBDA c2 :
            \* beginGroup(group) of a group the hierarchy does not hold
            IF ~known /\ ub.null = "crash" THEN [c2 EXCEPT !.status = "crashed"]
            ELSE IF k = 0 THEN [c2 EXCEPT !.warn = TRUE]
            ELSE
        Then(AddToParent(c2, K, time, group, getParentGroup(vortex), ub), LAMBDA c3 :
            IF c3.status # "ok" THEN c3
            ELSE
        Then(RecordRadii(c3, igt, group, vortex), LAMBDA c4 :
        Then(RecordRotation(c4, group, vortex), LAMBDA c5 :
            RecordCenter(c5, time, igt, group, vortex))))))

\* line 453: for (group = numGroups - 1; group >= 0; --group)
RECURSIVE FinalizeGroups(_, _, _, _, _, _)
FinalizeGroups(c, in, K, time, group, ub) ==
    IF group < 0 \/ c.status # "ok" THEN c
    ELSE Then(FinalizeGroup(c, in, K, time, group, ub), LAMBDA d :
         Then(Snapshot(d, "group", time, group, c), LAMBDA e :
              FinalizeGroups(e, in, K, time, group - 1, ub)))

\* lines 378-562: the loop over the timesteps, from timestep time on.  With
\* assertions compiled in, a mask volume whose dimensions differ from the
\* first one's ends the program (line 382)
RECURSIVE TimeLoop(_, _, _, _, _)
TimeLoop(c, in, K, time, ub) ==
    IF time >= K.numTimeSteps \/ c.status # "ok" THEN c
    ELSE IF ub.assertions /\ in.mask[time + 1].dims # K.volumeDims
    THEN [c EXCEPT !.status = "asserted"]
    ELSE Then(forEachVoxel(c, in, K, time, 0, ub), LAMBDA c1 :
         Then(Snapshot(c1, "voxels", time, -1, c), LAMBDA c2 :
         Then(FinalizeGroups(c2, in, K, time, K.numGroups - 1, ub), LAMBDA c3 :
              TimeLoop(c3, in, K, time + 1, ub))))

\* ------------------------------------------------- final per-group pass
\* line 567: groups whose life time is 0 are left as they are
SkipsFinalDivision(c, group) == c.g.LifeTime[group] = 0

\* lines 566-581 for one group
FinalizeSummary(c, K, group) ==
    LET life == c.g.LifeTime[group]
        m    == c.g.NumTopVoxels[group]
        n    == c.g.NumVoxels[group]
    IN  IF SkipsFinalDivision(c, group)
        THEN [c EXCEPT !.g.VortexID[group] = group]
        ELSE [c EXCEPT
               !.g.VortexID[group] = group,
               !.g.AspectRatio[group] = RDivInt(@, life),
               !.g.AvgRadius[group] = RDivInt(@, life),
               !.g.Surface = [s \in DOMAIN @ |->
                   IF s < K.numScalars /\ m > 0
                   THEN [@[s] EXCEPT ![group] = RDivInt(@, m)] ELSE @[s]],
               !.g.Avg = [s \in DOMAIN @ |->
                   IF s < K.numScalars /\ n > 0
                   THEN [@[s] EXCEPT ![group] = RDivInt(@, n)] ELSE @[s]]]

\* lines 565-582
RECURSIVE FinalPass(_, _, _)
FinalPass(c, K, group) ==
    IF group >= K.numGroups \/ c.status # "ok" THEN c
    ELSE Then(FinalizeSummary(c, K, group), LAMBDA d : FinalPass(d, K, group + 1))

\* ---------------------------------------------------------- process()
\* line 257-258: numGroups
NumGroupsOf(rangeY, totalGroups, skipLast, neg) ==
    Min2(CastToSizeT(rangeY - 1, neg),
         IF skipLast THEN SubSizeT(totalGroups, 1) ELSE totalGroups)

\* a guard that takes a series of one volume for an empty one
InputMissingShortSeries(mask, scal, top, vort) ==
    \/ Len(mask) = 0
    \/ Len(mask[1]) <= 1
    \/ Len(scal) = 0
    \/ Len(scal[1]) # Len(mask[1])
    \/ Len(top) = 0
    \/ Len(vort) = 0

\* a guard that does not compare the lengths of the two series
InputMissingAnyLength(mask, scal, top, vort) ==
    \/ Len(mask) = 0
    \/ Len(mask[1]) = 0
    \/ Len(scal) = 0
    \/ Len(scal[1]) = 0
    \/ Len(top) = 0
    \/ Len(vort) = 0

\* lines 248-251: some input is missing
InputMissing(mask, scal, top, vort) ==
    \/ Len(mask) = 0
    \/ Len(mask[1]) = 0
    \/ Len(scal) = 0
    \/ Len(scal[1]) # Len(mask[1])
    \/ Len(top) = 0
    \/ Len(vort) = 0

\* a check that leaves out the depth of the surface volume
DimensionsMismatchNoDepth(volumeDims, scalarDims, topScalarDims, numScalarVolumes) ==
    \/ volumeDims # scalarDims
    \/ topScalarDims[1] # scalarDims[1]
    \/ topScalarDims[2] # scalarDims[2]

\* lines 263-267: the dimensions do not fit
DimensionsMismatch(volumeDims, scalarDims, topScalarDims, numScalarVolumes) ==
    \/ volumeDims # scalarDims
    \/ topScalarDims[1] # scalarDims[1]
    \/ topScalarDims[2] # scalarDims[2]
    \/ topScalarDims[3] # numScalarVolumes

\* line 352: the assertion on the name counts
NameCountAssertion(numScalars, numTopScalars, nColScalars, nColTopScalars) ==
    numScalars * 4 = nColScalars /\ numTopScalars * 3 = nColTopScalars

\* a run whose voxel counters start from the table published last
AggregateOnPublishedCounts(in, K, ens, ub) ==
    Then([g |-> LET fresh == PerGroupColumns(K.numGroups, K.numTimeSteps, K.nNames,
                                             K.nTopNames, ens)
                IN  IF dataOut_ # <<>>
                       /\ DOMAIN dataOut_[1].NumVoxels = DOMAIN fresh.NumVoxels
                    THEN [fresh EXCEPT !.NumVoxels = dataOut_[1].NumVoxels]
                    ELSE fresh,
          gt |-> PerGroupPerTimeColumns(K.numTimeSteps * K.numGroups, K.nNames,
                                        K.nTopNames, ens),
          prev |-> Column(K.numGroups, <<0, 0>>),
          status |-> "ok", warn |-> FALSE, trace |-> <<>>], LAMBDA c0 :
    Then(TimeLoop(c0, in, K, 0, ub), LAMBDA c1 :
    Then(FinalPass(c1, K, 0), LAMBDA c2 :
         Snapshot(c2, "final", K.numTimeSteps, -1, c1))))

\* lines 276-585: the columns are created and filled
Aggregate(in, K, ens, ub) ==
    Then([g |-> PerGroupColumns(K.numGroups, K.numTimeSteps, K.nNames, K.nTopNames, ens),
          gt |-> PerGroupPerTimeColumns(K.numTimeSteps * K.numGroups, K.nNames,
                                        K.nTopNames, ens),
          prev |-> Column(K.numGroups, <<0, 0>>),
          status |-> "ok", warn |-> FALSE, trace |-> <<>>], LAMBDA c0 :
    Then(TimeLoop(c0, in, K, 0, ub), LAMBDA c1 :
    Then(FinalPass(c1, K, 0), LAMBDA c2 :
         Snapshot(c2, "final", K.numTimeSteps, -1, c1))))

\* the messages of a run
LogOf(c) == IF c.warn THEN {"Found vortex not on seed depth."} ELSE {}

\* lines 255-585, entered once the guards of lines 247-252 have passed:
\* the outcome of the run and, when it completes, the two tables
RunResult(mask, scal, top, vort, nNames, nTopNames, skipLast, ens, ub) ==
    LET numGroups == NumGroupsOf(mask[Len(mask)].rangeY, vort.numGroups, skipLast, ub.neg)
        K  == [numGroups |-> numGroups, numTimeSteps |-> Len(mask),
               volumeDims |-> mask[1].dims,
               numScalars |-> scal[1].comps, numTopScalars |-> top.comps,
               nNames |-> nNames, nTopNames |-> nTopNames]
        in == [mask |-> mask, scal |-> scal, top |-> top, vort |-> vort]
        none == [outcome |-> "none", numGroups |-> numGroups, tables |-> <<>>,
                 log |-> {}, trace |-> <<>>]
    IN  IF DimensionsMismatch(mask[1].dims, scal[1].dims, top.dims, Len(scal))
        THEN [none EXCEPT !.outcome = "dimwarn", !.log = {"Dimensions not matching"}]
        \* a column of numGroups rows cannot be allocated
        ELSE IF numGroups >= SizeTMod - 1
        THEN [none EXCEPT !.outcome = "threw"]
        ELSE IF ub.assertions
                /\ ~NameCountAssertion(scal[1].comps, top.comps, nNames, nTopNames)
        THEN [none EXCEPT !.outcome = "asserted"]
        ELSE Then(Aggregate(in, K, ens, ub), LAMBDA c :
                [outcome |-> IF c.status = "ok" THEN "done" ELSE c.status,
                 numGroups |-> numGroups,
                 tables |-> IF c.status = "ok" THEN <<[g |-> c.g, gt |-> c.gt]>> ELSE <<>>,
                 log |-> LogOf(c),
                 trace |-> c.trace])

\* --------------------------------------------------------- evaluation
statisticsVars == <<doAssemble_, maskVolumeIn_, scalarVolumesIn_, topScalarVolumesIn_,
          vorticesIn_, scalarNames_, topScalarNames_, ensembleMember_,
          skipLastGroup_, dataOut_, perGroupDataOut_, log, outcome,
          numGroupsOfRun, trace>>

vars == <<statisticsVars, meshVars, mscVars>>

inputs == <<maskVolumeIn_, scalarVolumesIn_, topScalarVolumesIn_, vorticesIn_,
            scalarNames_, topScalarNames_, ensembleMember_, skipLastGroup_>>

\* the outcomes of undefined behaviour and of the build's assertion setting
UBOutcomes ==
    [null : {"crash", "skip"}, neg : {0, SizeTMod - 1}, assertions : BOOLEAN]

\* an assertion failure or a crash ends the program
Alive == outcome \notin {"asserted", "crashed"}

\* what the actions other than process() leave of the last evaluation
NoEvaluation ==
    /\ outcome' = "none"
    /\ log' = {}
    /\ numGroupsOfRun' = 0
    /\ trace' = <<>>

\* lines 164-167: the Assemble button
Assemble ==
    /\ Alive
    /\ UNCHANGED otherProcessors
    /\ doAssemble_' = TRUE
    /\ NoEvaluation
    /\ UNCHANGED <<inputs, dataOut_, perGroupDataOut_>>

\* an evaluation that clears the trigger before it looks at the inputs
processClearsTriggerFirst ==
    /\ Alive
    /\ UNCHANGED otherProcessors
    /\ \E ub \in UBOutcomes :
        IF ~doAssemble_
        THEN /\ outcome' = "idle"
             /\ log' = {}
             /\ numGroupsOfRun' = 0
             /\ trace' = <<>>
             /\ UNCHANGED <<doAssemble_, inputs, dataOut_, perGroupDataOut_>>
        ELSE IF InputMissing(maskVolumeIn_, scalarVolumesIn_, topScalarVolumesIn_,
                             vorticesIn_)
        THEN /\ outcome' = "skipped"
             /\ log' = {}
             /\ numGroupsOfRun' = 0
             /\ trace' = <<>>
             /\ doAssemble_' = FALSE
             /\ UNCHANGED <<inputs, dataOut_, perGroupDataOut_>>
        ELSE \E r \in {RunResult(maskVolumeIn_[1], scalarVolumesIn_[1],
                                  topScalarVolumesIn_[1], vorticesIn_[1],
                                  Len(scalarNames_), Len(topScalarNames_),
                                  skipLastGroup_, ensembleMember_, ub)} :
                 /\ doAssemble_' = FALSE
                 /\ outcome' = r.outcome
                 /\ log' = r.log
                 /\ numGroupsOfRun' = r.numGroups
                 /\ trace' = r.trace
                 /\ IF r.outcome = "done"
                    THEN /\ dataOut_' = <<r.tables[1].g>>
                         /\ perGroupDataOut_' = <<r.tables[1].gt>>
                    ELSE UNCHANGED <<dataOut_, perGroupDataOut_>>
                 /\ UNCHANGED inputs

\* lines 246-586: one evaluation of VortexStatistics::process()
process ==
    /\ Alive
    /\ UNCHANGED otherProcessors
    /\ \E ub \in UBOutcomes :
        IF ~doAssemble_
        THEN /\ outcome' = "idle"
             /\ log' = {}
             /\ numGroupsOfRun' = 0
             /\ trace' = <<>>
             /\ UNCHANGED <<doAssemble_, inputs, dataOut_, perGroupDataOut_>>
        ELSE IF InputMissing(maskVolumeIn_, scalarVolumesIn_, topScalarVolumesIn_,
                             vorticesIn_)
        THEN /\ outcome' = "skipped"
             /\ log' = {}
             /\ numGroupsOfRun' = 0
             /\ trace' = <<>>
             /\ UNCHANGED <<doAssemble_, inputs, dataOut_, perGroupDataOut_>>
        ELSE \E r \in {RunResult(maskVolumeIn_[1], scalarVolumesIn_[1],
                                  topScalarVolumesIn_[1], vorticesIn_[1],
                                  Len(scalarNames_), Len(topScalarNames_),
                                  skipLastGroup_, ensembleMember_, ub)} :
                 /\ doAssemble_' = FALSE
                 /\ outcome' = r.outcome
                 /\ log' = r.log
                 /\ numGroupsOfRun' = r.numGroups
                 /\ trace' = r.trace
                 /\ IF r.outcome = "done"
                    THEN /\ dataOut_' = <<r.tables[1].g>>
                         /\ perGroupDataOut_' = <<r.tables[1].gt>>
                    ELSE UNCHANGED <<dataOut_, perGroupDataOut_>>
                 /\ UNCHANGED inputs

\* ------------------------------------------------- port change handlers
\* a list that gives up its first entries instead of its last
ResizeNamesFromFront(names, numComponents) ==
    IF Len(names) >= numComponents
    THEN SubSeq(names, Len(names) - numComponents + 1, Len(names))
    ELSE names \o [k \in 1..(numComponents - Len(names)) |-> Len(names) + k - 1]

\* lines 186-193 / 203-210: the name list follows the component count; the
\* entry added for channel n is identified by n
ResizeNames(names, numComponents) ==
    IF Len(names) >= numComponents THEN SubSeq(names, 1, numComponents)
    ELSE names \o [k \in 1..(numComponents - Len(names)) |-> Len(names) + k - 1]

\* lines 180-184: component count of the first scalar volume
NumScalarsOfPort(port) ==
    IF Len(port) > 0 /\ Len(port[1]) > 0 THEN port[1][1].comps ELSE 0

\* lines 197-201: component count of the surface volume
NumTopScalarsOfPort(port) == IF Len(port) > 0 THEN port[1].comps ELSE 0

\* ------------------------------------------------------- input values
\* the dimensions of the volumes of a run: one column of three voxels, the
\* middle one on the seed depth
RunDims == <<1, 1, 3>>

\* other dimensions a connected volume may have
OtherDims == <<1, 2, 3>>

VoxelIds(dims) == 0..(NumVox(dims) - 1)

RECURSIVE MaxOf(_)
MaxOf(S) ==
    IF S = {} THEN 0
    ELSE LET x == CHOOSE y \in S : TRUE IN Max2(x, MaxOf(S \ {x}))

\* the largest value of a mask volume's data
DataMax(data) == MaxOf({data[i] : i \in DOMAIN data})

MaskVolume(dims, data, rangeY) == [dims |-> dims, data |-> data, rangeY |-> rangeY]

\* a scalar volume of comps components whose voxel i holds field[i] in every
\* component
ScalarVolume(dims, comps, field) ==
    [dims |-> dims, comps |-> comps,
     data |-> [i \in VoxelIds(dims) |-> [k \in 1..comps |-> field[i]]]]

\* the data ranges a mask volume may carry: the range of its data, or the
\* wider range of its format
RangeYs(data) == {DataMax(data), MaxMask + 2}

\* mask series of len timesteps over dims whose last volume carries rangeY
MaskSeriesOf(datas, dims, rangeY) ==
    [t \in 1..Len(datas) |->
        MaskVolume(dims, datas[t],
                   IF t = Len(datas) THEN rangeY ELSE DataMax(datas[t]))]

RECURSIVE SeqsOf(_, _)
SeqsOf(S, n) ==
    IF n = 0 THEN {<<>>}
    ELSE {Append(q, x) : q \in SeqsOf(S, n - 1), x \in S}

\* every mask series of 1..maxLen timesteps over RunDims
MaskSeries(maxLen) ==
    UNION {{MaskSeriesOf(datas, RunDims, r) : r \in RangeYs(datas[Len(datas)])} :
           datas \in UNION {SeqsOf([VoxelIds(RunDims) -> 0..MaxMask], n) :
                            n \in 1..maxLen}}

\* scalar samples
ScalarValues == {-1, 0, 2}

\* a scalar series: the same scalar field at every timestep
ScalarSeriesOf(len, dims, comps, field) ==
    [t \in 1..len |-> ScalarVolume(dims, comps, field)]

\* the surface volume of a run of len timesteps: layer t holds field[t]
TopVolume(dimsXY, len, comps, field) ==
    ScalarVolume(<<dimsXY[1], dimsXY[2], len>>, comps,
                 [i \in 0..(dimsXY[1] * dimsXY[2] * len - 1) |->
                     field[i \div (dimsXY[1] * dimsXY[2])]])

\* one vortex record
Vortex(heightSlice, prof, parentGroup) ==
    [heightSlice |-> heightSlice, center |-> prof.center,
     minRadius |-> prof.radii[1], maxRadius |-> prof.radii[2],
     avgRadius |-> prof.radii[3], rotation |-> prof.rotation,
     parentGroup |-> parentGroup]

\* the shapes of the parent links of a hierarchy
ParentShapes == {"none", "chain", "star", "up"}

ParentOf(shape, group, totalGroups) ==
    CASE shape = "chain" -> group - 1
      [] shape = "star"  -> IF group > 0 THEN 0 ELSE -1
      [] shape = "up"    -> IF group + 1 < totalGroups THEN group + 1 ELSE -1
      [] OTHER           -> -1

\* the geometry of the vortex records
Profiles ==
    [center : {<<0, 0>>, <<3, 4>>},
     radii : {<<1, 2, 1>>, <<0, 1, 1>>, <<0, 0, 0>>, <<2, 3, 2>>},
     rotation : {"Clockwise", "CounterClockwise"}]

\* a hierarchy of totalGroups groups; every group holds a record off the
\* seed depth and, unless it is the group missing, one on the seed depth
Hierarchy(totalGroups, shape, missing, prof) ==
    [numGroups |-> totalGroups,
     groups |-> [g \in 0..(totalGroups - 1) |->
        LET off == Vortex(SEED_DEPTH + 1, prof, ParentOf(shape, g, totalGroups))
            on  == Vortex(SEED_DEPTH, prof, ParentOf(shape, g, totalGroups))
        IN  IF g = missing THEN <<off>> ELSE <<off, on>>]]

DefaultProfile == [center |-> <<3, 4>>, radii |-> <<1, 2, 1>>, rotation |-> "Clockwise"]

\* ------------------------------------------- values the ports may take
\* a mask series whose first volume holds group id 1 in its lowest layer
\* and whose later volumes are background
PlainMaskData(len, dims) ==
    [t \in 1..len |->
        [i \in VoxelIds(dims) |-> IF t = 1 /\ VoxelAt(i, dims)[3] = 0 THEN 1 ELSE 0]]

MaskPortValues ==
    {<<>>, << <<>> >>}
    \cup {<<MaskSeriesOf(PlainMaskData(len, RunDims), RunDims, MaxMask + 2)>> :
            len \in 1..MaxTime}

ScalarPortValues ==
    {<<>>, << <<>> >>}
    \cup {<<ScalarSeriesOf(len, dims, 1, [i \in VoxelIds(dims) |-> 2])>> :
            len \in 1..MaxTime, dims \in {RunDims, OtherDims}}

TopPortValues ==
    {<<>>}
    \cup {<<TopVolume(<<1, 1>>, len, 1, [t \in 0..(len - 1) |-> -3])>> :
            len \in 1..MaxTime}
    \cup {<<TopVolume(xy, 1, 1, [t \in {0} |-> -3])>> : xy \in {<<1, 2>>, <<2, 1>>}}

VortexPortValues ==
    {<<>>} \cup {<<Hierarchy(MaxGroups, shape, -1, DefaultProfile)>> :
                    shape \in {"chain", "none"}}

\* ------------------------------------------------------------- actions
\* new data on the mask inport
SetMask ==
    /\ Alive
    /\ UNCHANGED otherProcessors
    /\ \E p \in MaskPortValues : maskVolumeIn_' = p
    /\ NoEvaluation
    /\ UNCHANGED <<doAssemble_, scalarVolumesIn_, topScalarVolumesIn_, vorticesIn_,
                   scalarNames_, topScalarNames_, ensembleMember_, skipLastGroup_,
                   dataOut_, perGroupDataOut_>>

\* lines 179-194: new data, one of values, on the scalar inport and its
\* onChange callback
SetScalarsFrom(values) ==
    /\ Alive
    /\ UNCHANGED otherProcessors
    /\ \E p \in values :
        /\ scalarVolumesIn_' = p
        /\ scalarNames_' = ResizeNames(scalarNames_, NumScalarsOfPort(p))
    /\ NoEvaluation
    /\ UNCHANGED <<doAssemble_, maskVolumeIn_, topScalarVolumesIn_, vorticesIn_,
                   topScalarNames_, ensembleMember_, skipLastGroup_,
                   dataOut_, perGroupDataOut_>>

SetScalars == SetScalarsFrom(ScalarPortValues)

\* lines 196-211: new data, one of values, on the surface inport and its
\* onChange callback
SetTopScalarsFrom(values) ==
    /\ Alive
    /\ UNCHANGED otherProcessors
    /\ \E p \in values :
        /\ topScalarVolumesIn_' = p
        /\ topScalarNames_' = ResizeNames(topScalarNames_, NumTopScalarsOfPort(p))
    /\ NoEvaluation
    /\ UNCHANGED <<doAssemble_, maskVolumeIn_, scalarVolumesIn_, vorticesIn_,
                   scalarNames_, ensembleMember_, skipLastGroup_,
                   dataOut_, perGroupDataOut_>>

SetTopScalars == SetTopScalarsFrom(TopPortValues)

\* new data on the vortex inport
SetVortices ==
    /\ Alive
    /\ UNCHANGED otherProcessors
    /\ \E p \in VortexPortValues : vorticesIn_' = p
    /\ NoEvaluation
    /\ UNCHANGED <<doAssemble_, maskVolumeIn_, scalarVolumesIn_, topScalarVolumesIn_,
                   scalarNames_, topScalarNames_, ensembleMember_, skipLastGroup_,
                   dataOut_, perGroupDataOut_>>

\* the 'Skip Last Group' checkbox
SetSkipLastGroup ==
    /\ Alive
    /\ UNCHANGED otherProcessors
    /\ skipLastGroup_' = ~skipLastGroup_
    /\ NoEvaluation
    /\ UNCHANGED <<doAssemble_, maskVolumeIn_, scalarVolumesIn_, topScalarVolumesIn_,
                   vorticesIn_, scalarNames_, topScalarNames_, ensembleMember_,
                   dataOut_, perGroupDataOut_>>

\* lines 151-212: the processor after construction; doAssemble_ is declared
\* in the class header and starts cleared
Init ==
    /\ doAssemble_ = FALSE
    /\ OtherProcessorsConstructed
    /\ maskVolumeIn_ = <<>>
    /\ scalarVolumesIn_ = <<>>
    /\ topScalarVolumesIn_ = <<>>
    /\ vorticesIn_ = <<>>
    /\ scalarNames_ = <<>>
    /\ topScalarNames_ = <<>>
    /\ ensembleMember_ = 0
    /\ skipLastGroup_ = TRUE
    /\ dataOut_ = <<>>
    /\ perGroupDataOut_ = <<>>
    /\ log = {}
    /\ outcome = "none"
    /\ numGroupsOfRun = 0
    /\ trace = <<>>

Next ==
    \/ Assemble
    \/ process
    \/ SetMask
    \/ SetScalars
    \/ SetTopScalars
    \/ SetVortices
    \/ SetSkipLastGroup

Spec == Init /\ [][Next]_vars

\* ------------------------------------------- runs over component counts
\* scalar series whose first volume has first components and whose later
\* volumes have rest components
ComponentSeries(len, first, rest) ==
    [t \in 1..len |->
        ScalarVolume(RunDims, IF t = 1 THEN first ELSE rest,
                     [i \in VoxelIds(RunDims) |-> 2])]

ScalarComponentPortValues ==
    {<<>>, << <<>> >>}
    \cup {<<ComponentSeries(len, first, rest)>> :
            len \in 1..MaxTime, first \in 1..MaxComps, rest \in 1..MaxComps}

TopComponentPortValues ==
    {<<>>}
    \cup {<<TopVolume(<<1, 1>>, len, comps, [t \in 0..(len - 1) |-> -3])>> :
            len \in 1..MaxTime, comps \in 1..MaxComps}

SetScalarComponents == SetScalarsFrom(ScalarComponentPortValues)

SetTopScalarComponents == SetTopScalarsFrom(TopComponentPortValues)

NextNames ==
    \/ SetScalarComponents
    \/ SetTopScalarComponents
    \/ Assemble

\* the change events of the two scalar inports, from construction on
SpecNames == Init /\ [][NextNames]_vars

\* ------------------------------------------------- runs over input data
\* a connected processor: series over RunDims, one component per volume,
\* the names following the component counts
Connected(series, scalarField, topField, hierarchy, skipLast) ==
    /\ doAssemble_ = FALSE
    /\ OtherProcessorsConstructed
    /\ maskVolumeIn_ = <<series>>
    /\ scalarVolumesIn_ = <<ScalarSeriesOf(Len(series), RunDims, 1, scalarField)>>
    /\ topScalarVolumesIn_ =
          <<TopVolume(<<1, 1>>, Len(series), 1,
                      [t \in 0..(Len(series) - 1) |-> topField])>>
    /\ vorticesIn_ = <<hierarchy>>
    /\ scalarNames_ = ResizeNames(<<>>, 1)
    /\ topScalarNames_ = ResizeNames(<<>>, 1)
    /\ ensembleMember_ = 0
    /\ skipLastGroup_ = skipLast
    /\ dataOut_ = <<>>
    /\ perGroupDataOut_ = <<>>
    /\ log = {}
    /\ outcome = "none"
    /\ numGroupsOfRun = 0
    /\ trace = <<>>

DefaultScalarField == [i \in VoxelIds(RunDims) |-> IF i = 0 THEN 2 ELSE -1]

\* mask series whose volumes after the first are background
FirstOnlySeries ==
    {MaskSeriesOf([t \in 1..len |-> IF t = 1 THEN d ELSE [i \in VoxelIds(RunDims) |-> 0]],
                  RunDims, MaxMask + 2) :
        len \in 1..MaxTime, d \in [VoxelIds(RunDims) -> 0..MaxMask]}

\* every mask series, with and without parent links
InitMasks ==
    \E series \in MaskSeries(MaxTime), shape \in {"chain", "none"} :
        Connected(series, DefaultScalarField, -3,
                  Hierarchy(MaxGroups, shape, -1, DefaultProfile), FALSE)

\* every group count and flag, over the series of one timestep
InitGroupCounts ==
    \E series \in MaskSeries(1), G \in 0..MaxGroups,
       skipLast \in BOOLEAN :
        Connected(series, DefaultScalarField, -3,
                  Hierarchy(G, "chain", -1, DefaultProfile), skipLast)

\* every hierarchy, over the series that hold a group and its child
InitVortices ==
    \E series \in {q \in FirstOnlySeries :
                      q[1].data = [i \in VoxelIds(RunDims) |-> (i + 1) % (MaxMask + 1)]},
       shape \in ParentShapes, missing \in -1..(MaxGroups - 1), prof \in Profiles :
        Connected(series, DefaultScalarField, -3,
                  Hierarchy(MaxGroups, shape, missing, prof), FALSE)

\* every scalar field and surface value, over the series of one timestep
InitScalars ==
    \E series \in {q \in FirstOnlySeries : Len(q) = 1},
       field \in [VoxelIds(RunDims) -> ScalarValues], topField \in ScalarValues :
        Connected(series, field, topField,
                  Hierarchy(MaxGroups, "none", -1, DefaultProfile), FALSE)

InitRun == InitMasks \/ InitGroupCounts \/ InitVortices \/ InitScalars

NextRun ==
    \/ Assemble
    \/ process

SpecRun == InitRun /\ [][NextRun]_vars

\* the runs of one timestep over every number of groups
SpecGroupCounts == InitGroupCounts /\ [][NextRun]_vars

\* the runs over every hierarchy
SpecVortices == InitVortices /\ [][NextRun]_vars

\* mask volumes that hold at most one group voxel
SparseVolumes ==
    {[i \in VoxelIds(RunDims) |-> 0]}
    \cup {[i \in VoxelIds(RunDims) |-> IF i = j THEN v ELSE 0] :
            j \in VoxelIds(RunDims), v \in 1..MaxMask}

\* the mask series of 1..MaxTime such volumes
SparseSeries ==
    {MaskSeriesOf(datas, RunDims, MaxMask + 2) :
        datas \in UNION {SeqsOf(SparseVolumes, n) : n \in 1..MaxTime}}

\* every such series, with and without parent links
InitSparse ==
    \E series \in SparseSeries, shape \in {"chain", "none"} :
        Connected(series, DefaultScalarField, -3,
                  Hierarchy(MaxGroups, shape, -1, DefaultProfile), FALSE)

\* the runs over the series of sparse volumes
SpecSparse == InitSparse /\ [][NextRun]_vars

\* every such series over hierarchies in which one group has no record on
\* the seed depth
InitMissing ==
    \E series \in SparseSeries, shape \in ParentShapes,
       missing \in 0..(MaxGroups - 1) :
        Connected(series, DefaultScalarField, -3,
                  Hierarchy(MaxGroups, shape, missing, DefaultProfile), FALSE)

\* the runs over hierarchies with a group off the seed depth
SpecMissing == InitMissing /\ [][NextRun]_vars

\* mask series of one timestep with ids up to MaxMask + 1, over a hierarchy
\* of MaxGroups + 1 groups: the ids of a grandchild, its parent and its
\* grandparent are all below numGroups
InitChain ==
    \E data \in [VoxelIds(RunDims) -> 0..(MaxMask + 1)], shape \in {"chain", "star"} :
        Connected(MaskSeriesOf(<<data>>, RunDims, MaxMask + 3), DefaultScalarField, -3,
                  Hierarchy(MaxGroups + 1, shape, -1, DefaultProfile), FALSE)

\* the runs over hierarchies three levels deep
SpecChain == InitChain /\ [][NextRun]_vars

\* --------------------------------------- runs over volumes of other sizes
\* the data of a volume after the first: background, or group id 1 in its
\* first voxel
LaterData(dims, seen) == [i \in VoxelIds(dims) |-> IF seen /\ i = 0 THEN 1 ELSE 0]

\* series of MaxTime timesteps whose first mask and scalar volume are over
\* RunDims and whose later mask volumes are over maskDims and later scalar
\* volumes over scalarDims
InitDims ==
    \E first \in SparseVolumes, seen \in BOOLEAN,
       maskDims \in {RunDims, OtherDims}, scalarDims \in {RunDims, OtherDims} :
        /\ doAssemble_ = FALSE
        /\ OtherProcessorsConstructed
        /\ maskVolumeIn_ =
              <<[t \in 1..MaxTime |->
                  IF t = 1 THEN MaskVolume(RunDims, first, DataMax(first))
                  ELSE MaskVolume(maskDims, LaterData(maskDims, seen),
                                  IF t = MaxTime THEN MaxMask + 2 ELSE 0)]>>
        /\ scalarVolumesIn_ =
              <<[t \in 1..MaxTime |->
                  ScalarVolume(IF t = 1 THEN RunDims ELSE scalarDims, 1,
                               [i \in VoxelIds(IF t = 1 THEN RunDims ELSE scalarDims) |-> 2])]>>
        /\ topScalarVolumesIn_ =
              <<TopVolume(<<1, 1>>, MaxTime, 1, [t \in 0..(MaxTime - 1) |-> -3])>>
        /\ vorticesIn_ = <<Hierarchy(MaxGroups, "none", -1, DefaultProfile)>>
        /\ scalarNames_ = ResizeNames(<<>>, 1)
        /\ topScalarNames_ = ResizeNames(<<>>, 1)
        /\ ensembleMember_ = 0
        /\ skipLastGroup_ = FALSE
        /\ dataOut_ = <<>>
        /\ perGroupDataOut_ = <<>>
        /\ log = {}
        /\ outcome = "none"
        /\ numGroupsOfRun = 0
        /\ trace = <<>>

\* the runs over series whose later volumes may have other dimensions
SpecDims == InitDims /\ [][NextRun]_vars

\* ---------------------------------------------- MorseSmaleComplexToMesh
\* the complexes the inport can hold
MscValues ==
    {m \in [numcp : 0..MaxPoints, numsep : 0..MaxPoints] :
        m.numcp + m.numsep <= MaxPoints}

\* criticalPoints.PLVertexIdentifiers holds one identifier per critical point
NumVertexIdentifiers(msc) == msc.numcp

\* std::find: the position of the first entry equal to x, or the end
Find(list, x) ==
    IF \E k \in DOMAIN list : list[k] = x
    THEN CHOOSE k \in DOMAIN list :
             list[k] = x /\ \A j \in 1..(k - 1) : list[j] # x
    ELSE Len(list) + 1

\* std::vector::erase of the entry at position k
Erase(list, k) == SubSeq(list, 1, k - 1) \o SubSeq(list, k + 1, Len(list))

\* a toggle that appends the index whether or not the list holds it
TogglePickedAlwaysAppends(list, index) == Append(list, index)

\* part_000 lines 197-202: append the index if the list does not hold it,
\* erase it otherwise
TogglePicked(list, index) ==
    LET pIt == Find(list, index)
    IN  IF pIt = Len(list) + 1 THEN Append(list, index) ELSE Erase(list, pIt)

\* part_000 lines 62-176: process().  The mesh holds the critical points
\* followed by the separatrix points; with picking enabled the mapper is
\* resized to the number of positions and every position gets a picking id.
MorseSmaleComplexToMesh_process ==
    /\ meshAlive
    /\ UNCHANGED <<statisticsVars, mscVars>>
    /\ IF mscInport_ = <<>>
       THEN UNCHANGED meshVars
       ELSE LET pMSCData == mscInport_[1]
                numcp == pMSCData.numcp
                positions == numcp + pMSCData.numsep
            IN  /\ pickingMapper_' =
                      IF enablePicking_ THEN positions ELSE pickingMapper_
                /\ meshOutport_' =
                      <<[positions |-> positions, picking |-> enablePicking_]>>
                /\ UNCHANGED <<mscInport_, enablePicking_, pickedNodeIndices_,
                               meshAlive, lastPick, pickedOdd>>

\* the kinds of event a picking event can carry
EventKinds == {"leftPress", "touch", "wheel", "move"}

\* the outcomes of reading PLVertexIdentifiers past its end
LookupOutcomes == {"crash", "read"}

\* part_000 lines 178-235: picking().  Only a left-button press past the two
\* guards changes the list; the identifier is looked up without a range
\* check and is only logged.
picking(kind, pickingIndex, ub) ==
    /\ meshAlive
    /\ UNCHANGED <<statisticsVars, mscVars>>
    /\ IF ~enablePicking_ \/ mscInport_ = <<>> \/ kind # "leftPress"
       THEN UNCHANGED meshVars
       ELSE LET inRange == pickingIndex < NumVertexIdentifiers(mscInport_[1])
            IN  IF ~inRange /\ ub = "crash"
                THEN /\ meshAlive' = FALSE
                     /\ UNCHANGED <<mscInport_, enablePicking_, pickingMapper_,
                                    meshOutport_, pickedNodeIndices_, lastPick,
                                    pickedOdd>>
                ELSE /\ pickedNodeIndices_' =
                           TogglePicked(pickedNodeIndices_, pickingIndex)
                     /\ lastPick' =
                           LET again == /\ lastPick # <<>>
                                        /\ lastPick[1].index = pickingIndex
                           IN  <<[index |-> pickingIndex,
                                  inRange |-> inRange,
                                  again |-> again,
                                  start |-> IF again THEN lastPick[1].before
                                            ELSE pickedNodeIndices_,
                                  before |-> pickedNodeIndices_]>>
                     /\ pickedOdd' =
                           IF pickingIndex \in pickedOdd
                           THEN pickedOdd \ {pickingIndex}
                           ELSE pickedOdd \cup {pickingIndex}
                     /\ UNCHANGED <<mscInport_, enablePicking_, pickingMapper_,
                                    meshOutport_, meshAlive>>

\* a picking event reaches the processor for a vertex of the mesh on the
\* outport that carries a picking id of the mapper
PickingEvent ==
    /\ meshOutport_ # <<>>
    /\ meshOutport_[1].picking
    /\ \E kind \in EventKinds, pickingIndex \in 0..(pickingMapper_ - 1),
          ub \in LookupOutcomes :
           picking(kind, pickingIndex, ub)

\* the complex on the inport changes or goes away
SetMscInport ==
    /\ meshAlive
    /\ \E port \in {<<>>} \cup {<<m>> : m \in MscValues} :
           /\ port # mscInport_
           /\ mscInport_' = port
    /\ UNCHANGED <<statisticsVars, mscVars, enablePicking_, pickingMapper_,
                   meshOutport_, pickedNodeIndices_, meshAlive, lastPick,
                   pickedOdd>>

\* the user switches picking on or off
SetEnablePicking ==
    /\ meshAlive
    /\ enablePicking_' = ~enablePicking_
    /\ UNCHANGED <<statisticsVars, mscVars, mscInport_, pickingMapper_,
                   meshOutport_, pickedNodeIndices_, meshAlive, lastPick,
                   pickedOdd>>

NextMesh ==
    \/ MorseSmaleComplexToMesh_process
    \/ PickingEvent
    \/ SetMscInport
    \/ SetEnablePicking

SpecMesh == Init /\ [][NextMesh]_vars

\* ---------------------------------------------------- MorseSmaleComplex
\* lines 68-90: computeMsc; the complex keeps the triangulation it was
\* computed from
computeMsc(inportData) == [triangulation |-> inportData]

\* new data arrives on the inport
SetInport ==
    /\ supplied < MaxInputs
    /\ supplied' = supplied + 1
    /\ inport_' = <<supplied + 1>>
    /\ UNCHANGED <<statisticsVars, meshVars, outport_, pool, front, invoked>>

\* lines 63-100: process() captures the data on the inport and hands the
\* computation to the thread pool
MorseSmaleComplex_process ==
    /\ inport_ # <<>>
    /\ Len(invoked) < MaxInputs
    /\ LET inportData == inport_[1]
       IN  /\ pool' = pool \cup {[call |-> Len(invoked) + 1,
                                  inportData |-> inportData]}
           /\ invoked' = Append(invoked, inportData)
    /\ UNCHANGED <<statisticsVars, meshVars, inport_, outport_, front, supplied>>

\* lines 92-99: a task of the pool runs to its end, in whatever order the
\* pool's threads finish, and queues its callback for the front thread
PoolTask ==
    \E task \in pool :
        /\ pool' = pool \ {task}
        /\ front' = Append(front, computeMsc(task.inportData))
        /\ UNCHANGED <<statisticsVars, meshVars, inport_, outport_, supplied,
                       invoked>>

\* line 98: the front thread runs the oldest queued callback
FrontCallback ==
    /\ front # <<>>
    /\ outport_' = <<Head(front)>>
    /\ front' = Tail(front)
    /\ UNCHANGED <<statisticsVars, meshVars, inport_, pool, supplied, invoked>>

NextMsc ==
    \/ SetInport
    \/ MorseSmaleComplex_process
    \/ PoolTask
    \/ FrontCallback

SpecMsc == Init /\ [][NextMsc]_vars

\* ============================================================== claims
\* a step is an evaluation of process() when it records an outcome
Evaluated == outcome' # "none"

\* the outcomes of an evaluation that passed the guards of lines 247-252
RunOutcomes == {"dimwarn", "threw", "asserted", "crashed", "done"}

\* the mask series is absent or empty
MaskAbsentOrEmpty == Len(maskVolumeIn_) = 0 \/ Len(maskVolumeIn_[1]) = 0

\* the scalar series is absent or not as long as the mask series
ScalarsAbsentOrMismatched ==
    \/ Len(scalarVolumesIn_) = 0
    \/ Len(scalarVolumesIn_[1]) # Len(maskVolumeIn_[1])

\* one of the required inputs is missing
SomeInputMissing ==
    \/ MaskAbsentOrEmpty
    \/ ScalarsAbsentOrMismatched
    \/ Len(topScalarVolumesIn_) = 0
    \/ Len(vorticesIn_) = 0

\* C1 (as stated): whenever the pending flag is set, the next evaluation of
\* process() performs a run and clears the flag.
C1_NextEvaluationRuns ==
    [][(Evaluated /\ doAssemble_) => (outcome' \in RunOutcomes /\ ~doAssemble_')]_vars

\* C1 (corrected): an evaluation of process() with the pending flag set and
\* every required input present performs one run and clears the flag; with
\* the flag set and a required input missing it performs no run and leaves
\* the flag set; with the flag clear it performs no run; and only the
\* Assemble action sets the flag.
C1_FlagConsumedByRun ==
    [][/\ Evaluated =>
            IF ~doAssemble_ THEN outcome' = "idle" /\ ~doAssemble_'
            ELSE IF SomeInputMissing THEN outcome' = "skipped" /\ doAssemble_'
            ELSE outcome' \in RunOutcomes /\ ~doAssemble_'
       /\ (~doAssemble_ /\ doAssemble_') => ~Evaluated]_vars

\* a run has completed and consumed the flag
C1_RunPerformed == outcome = "done" /\ ~doAssemble_ /\ Len(dataOut_) = 1

\* C2: an evaluation of process() with the mask series absent or empty, the
\* scalar series absent or of another length, the surface volume absent or
\* the hierarchy absent changes neither output port.
C2_MissingInputKeepsOutputs ==
    [][(Evaluated /\ SomeInputMissing) => UNCHANGED <<dataOut_, perGroupDataOut_>>]_vars

\* an evaluation was skipped for a missing input while both ports held the
\* tables of an earlier run
C2_SkippedWithTables ==
    outcome = "skipped" /\ doAssemble_ /\ Len(dataOut_) = 1 /\ Len(perGroupDataOut_) = 1

\* the dimensions of the connected volumes differ (the inputs are present)
DimensionsDiffer ==
    LET mask == maskVolumeIn_[1]
        scal == scalarVolumesIn_[1]
        top  == topScalarVolumesIn_[1]
    IN  \/ mask[1].dims # scal[1].dims
        \/ top.dims[1] # scal[1].dims[1]
        \/ top.dims[2] # scal[1].dims[2]
        \/ top.dims[3] # Len(mask)

\* C3: a run whose mask dimensions differ from the scalar dimensions, or
\* whose surface volume differs from the scalar volumes in x or y or from
\* the number of timesteps in depth, logs a warning and leaves both output
\* ports unchanged.
C3_MismatchWarns ==
    [][(Evaluated /\ doAssemble_ /\ ~SomeInputMissing /\ DimensionsDiffer) =>
            /\ "Dimensions not matching" \in log'
            /\ UNCHANGED <<dataOut_, perGroupDataOut_>>]_vars

\* a run ended with the warning while both ports held earlier tables
C3_WarnedWithTables ==
    /\ outcome = "dimwarn"
    /\ "Dimensions not matching" \in log
    /\ Len(dataOut_) = 1
    /\ Len(perGroupDataOut_) = 1

\* ------------------------------------------------ the tables of a run
\* the mask series, scalar series and hierarchy of the last run
RunMask == maskVolumeIn_[1]

RunScalars == scalarVolumesIn_[1]

RunVortices == vorticesIn_[1]

\* the groups of the last run
RunGroups == 0..(numGroupsOfRun - 1)

\* the record of group g on the seed depth (0 if it has none)
SeedRecordOf(g) ==
    IF g < RunVortices.numGroups THEN SeedRecord(RunVortices.groups[g]) ELSE 0

\* the parent the seed-depth record of group g names (-1 if none)
ParentNamedBy(g) ==
    IF SeedRecordOf(g) = 0 THEN -1
    ELSE getParentGroup(RunVortices.groups[g][SeedRecordOf(g)])

\* the groups whose values the finalize pass hands to group g
ContributingChildren(g) ==
    {ch \in RunGroups : ParentNamedBy(ch) = g /\ g < ch}

\* the sum of rows (g, 0) .. (g, t) of a per-group-per-time column
RECURSIVE SumRows(_, _, _)
SumRows(col, g, t) ==
    IF t < 0 THEN 0 ELSE col[numGroupsOfRun * t + g] + SumRows(col, g, t - 1)

\* the voxels of timestep t that the mask assigns to group g
VoxelsOfGroup(t, g) ==
    {i \in VoxelIds(RunMask[t + 1].dims) :
        /\ RunMask[t + 1].data[i] = g + 1
        /\ ValidGroupId([numGroups |-> numGroupsOfRun], g + 1)}

\* those of them on the seed depth
SurfaceVoxelsOfGroup(t, g) ==
    {i \in VoxelsOfGroup(t, g) : VoxelAt(i, RunMask[t + 1].dims)[3] = SEED_DEPTH}

\* the sum of channel s of the scalar volume of timestep t over voxels S
RECURSIVE SumOfSamples(_, _, _)
SumOfSamples(S, t, s) ==
    IF S = {} THEN 0
    ELSE LET i == CHOOSE j \in S : TRUE
         IN  RunScalars[t + 1].data[i][s + 1] + SumOfSamples(S \ {i}, t, s)

\* the length of the path through the centers recorded for group g at the
\* timesteps start .. t
RECURSIVE PathLength(_, _, _, _)
PathLength(gt, g, start, t) ==
    IF t <= start THEN 0
    ELSE LET now  == numGroupsOfRun * t + g
             last == numGroupsOfRun * (t - 1) + g
         IN  Distance(<<gt.CenterX[now], gt.CenterY[now]>>,
                      <<gt.CenterX[last], gt.CenterY[last]>>)
             + PathLength(gt, g, start, t - 1)

\* C4: a run on inputs that pass the guards, with columns that can be
\* allocated, never throws: every row index it uses on a per-group column
\* is below numGroups.
C4_NeverThrows ==
    (outcome \in RunOutcomes /\ numGroupsOfRun < SizeTMod - 1) => outcome # "threw"

\* C5: after a completed run, for every group that receives nothing from a
\* child, the per-time 'Num Voxels' values of the group add up to its
\* per-group 'Num Voxels' value.
C5_CountsAddUp ==
    outcome = "done" =>
        \A g \in RunGroups :
            ContributingChildren(g) = {} =>
                SumRows(perGroupDataOut_[1].NumVoxels, g, Len(RunMask) - 1)
                    = dataOut_[1].NumVoxels[g]

\* C6: the finalize pass of timestep t for a group g whose seed-depth record
\* names a parent p with 0 <= p < g adds the voxel and surface-voxel counts
\* of row (g,t) to p's per-group totals and to row (p,t), and leaves the
\* counts of row (g,t) as they were.
C6_ParentReceivesCounts ==
    \A i \in 1..Len(trace) :
        LET e   == trace[i]
            g   == e.group
            p   == ParentNamedBy(g)
            igt == numGroupsOfRun * e.time + g
            pgt == numGroupsOfRun * e.time + p
        IN  (e.phase = "group" /\ 0 <= p /\ p < g) =>
                /\ e.g.NumVoxels[p] = e.pre.g.NumVoxels[p] + e.pre.gt.NumVoxels[igt]
                /\ e.g.NumTopVoxels[p]
                     = e.pre.g.NumTopVoxels[p] + e.pre.gt.NumTopVoxels[igt]
                /\ e.gt.NumVoxels[pgt]
                     = e.pre.gt.NumVoxels[pgt] + e.pre.gt.NumVoxels[igt]
                /\ e.gt.NumTopVoxels[pgt]
                     = e.pre.gt.NumTopVoxels[pgt] + e.pre.gt.NumTopVoxels[igt]
                /\ e.gt.NumVoxels[igt] = e.pre.gt.NumVoxels[igt]
                /\ e.gt.NumTopVoxels[igt] = e.pre.gt.NumTopVoxels[igt]

\* the largest mask value of the whole series
MaxMaskValue == MaxOf({DataMax(RunMask[t].data) : t \in 1..Len(RunMask)})

\* C7: numGroups of a run is min(M, G - s): M the largest mask value of the
\* whole series, G the group count of the hierarchy, s = 1 when 'skip last
\* group' is set and 0 otherwise.
C7_NumGroups ==
    outcome \in RunOutcomes =>
        numGroupsOfRun = Min2(MaxMaskValue,
                              RunVortices.numGroups - (IF skipLastGroup_ THEN 1 ELSE 0))

\* C8: after the finalize pass of timestep t for group g, for every scalar
\* channel: with n > 0 voxels of g at t the per-time 'Avg' value is the sum
\* of the channel over those voxels divided by n, with m > 0 seed-depth
\* voxels the per-time 'Surface' value is the sum over those divided by m,
\* and with a count of 0 the value is the one before the pass.
C8_PerTimeAverages ==
    \A i \in 1..Len(trace) :
        LET e   == trace[i]
            g   == e.group
            igt == numGroupsOfRun * e.time + g
            n   == Cardinality(VoxelsOfGroup(e.time, g))
            m   == Cardinality(SurfaceVoxelsOfGroup(e.time, g))
        IN  (e.phase = "group" /\ e.status = "ok" /\ ContributingChildren(g) = {}) =>
                \A s \in DOMAIN e.gt.Avg :
                    /\ e.gt.Avg[s][igt] =
                          IF n > 0
                          THEN Rat(SumOfSamples(VoxelsOfGroup(e.time, g), e.time, s), n)
                          ELSE e.pre.gt.Avg[s][igt]
                    /\ e.gt.Surface[s][igt] =
                          IF m > 0
                          THEN Rat(SumOfSamples(SurfaceVoxelsOfGroup(e.time, g), e.time, s), m)
                          ELSE e.pre.gt.Surface[s][igt]

\* C9: after the final per-group pass, for every group whose accumulated
\* voxel count is above 0 the per-group 'Avg' value of each channel is the
\* accumulated sum divided by that count, and likewise 'Surface' with the
\* accumulated surface-voxel count, also for a group seen in one timestep.
C9_PerGroupAverages ==
    outcome = "done" =>
        LET e == trace[Len(trace)]
        IN  \A g \in RunGroups : \A s \in DOMAIN e.g.Avg :
                /\ e.pre.g.NumVoxels[g] > 0 =>
                      e.g.Avg[s][g] = RDivInt(e.pre.g.Avg[s][g], e.pre.g.NumVoxels[g])
                /\ e.pre.g.NumTopVoxels[g] > 0 =>
                      e.g.Surface[s][g]
                        = RDivInt(e.pre.g.Surface[s][g], e.pre.g.NumTopVoxels[g])

\* C10: after a run, 'Travelled Distance' of a group is the sum of the
\* distances between the centers recorded at its consecutive timesteps,
\* starting from the center recorded at its start time.
C10_TravelIsPathLength ==
    outcome = "done" =>
        \A g \in RunGroups :
            (SeedRecordOf(g) # 0 /\ dataOut_[1].StartTime[g] < Len(RunMask)) =>
                dataOut_[1].Travel[g]
                    = PathLength(perGroupDataOut_[1], g, dataOut_[1].StartTime[g],
                                 Len(RunMask) - 1)

\* the seed-depth record of group g of the last run
SeedVortexOf(g) == RunVortices.groups[g][SeedRecordOf(g)]

\* C11: after a run, for every group with a seed-depth record and every
\* timestep, the per-time 'Surface Aspect Ratio' is NaN exactly when
\* maxRadius / minRadius is not finite (minRadius = 0), and is
\* maxRadius / minRadius otherwise.
C11_AspectRatio ==
    outcome = "done" =>
        \A g \in RunGroups : \A t \in 0..(Len(RunMask) - 1) :
            SeedRecordOf(g) # 0 =>
                LET ratio == perGroupDataOut_[1].AspectRatio[numGroupsOfRun * t + g]
                    v     == SeedVortexOf(g)
                IN  IF v.minRadius = 0 THEN ratio = NaN
                    ELSE /\ ratio # NaN
                         /\ ratio[1] * v.minRadius = v.maxRadius * ratio[2]

\* a completed run of MaxTime timesteps recorded NaN for a record with
\* minRadius 0
C11_NaNRatioRecorded ==
    /\ outcome = "done"
    /\ \E g \in RunGroups :
          /\ SeedRecordOf(g) # 0
          /\ SeedVortexOf(g).minRadius = 0
          /\ perGroupDataOut_[1].AspectRatio[g] = NaN
    /\ Len(RunMask) = MaxTime

\* the timesteps up to upTo at which the mask assigns a voxel to group g
AcceptedTimes(g, upTo) == {t \in 0..upTo : VoxelsOfGroup(t, g) # {}}

MinOfSet(S) == CHOOSE x \in S : \A y \in S : x <= y

MaxOfSet(S) == CHOOSE x \in S : \A y \in S : x >= y

\* the voxels of timestep t that the mask assigns to a group of the run
AcceptedVoxels(t) ==
    {i \in VoxelIds(RunMask[t + 1].dims) :
        ValidGroupId([numGroups |-> numGroupsOfRun], RunMask[t + 1].data[i])}

\* the group of the first of them in storage order
FirstAcceptedGroup(t) == RunMask[t + 1].data[MinOfSet(AcceptedVoxels(t))] - 1

\* C12: after a run, for every group with an accepted voxel 'Start Time' is
\* the smallest timestep at which it has one and 'Life Time' is the largest
\* such timestep minus 'Start Time'; the same holds of the columns at the
\* moment a voxel pass throws, for the group of the voxel it throws on.
C12_StartAndLifeTime ==
    /\ outcome = "done" =>
          \A g \in RunGroups :
              LET times == AcceptedTimes(g, Len(RunMask) - 1)
              IN  times # {} =>
                      /\ dataOut_[1].StartTime[g] = MinOfSet(times)
                      /\ dataOut_[1].LifeTime[g] = MaxOfSet(times) - MinOfSet(times)
    /\ \A i \in 1..Len(trace) :
          LET e == trace[i]
          IN  (e.phase = "voxels" /\ e.status = "threw") =>
                  LET g     == FirstAcceptedGroup(e.time)
                      times == AcceptedTimes(g, e.time)
                  IN  /\ e.g.StartTime[g] = MinOfSet(times)
                      /\ e.g.LifeTime[g] = e.time - MinOfSet(times)

\* a completed run of MaxTime timesteps in which a group had a voxel
C12_GroupSeen ==
    /\ outcome = "done"
    /\ Len(RunMask) = MaxTime
    /\ \E g \in RunGroups :
          /\ AcceptedTimes(g, Len(RunMask) - 1) # {}
          /\ dataOut_[1].StartTime[g] = 0
          /\ dataOut_[1].LifeTime[g] = 0

\* the fields of a table that hold one column per declared name
PerNameFields == {"Surface", "Avg", "Min", "Max", "TopExtreme", "TopMin", "TopMax"}

\* whether every column of the table has exactly n rows
HasRows(table, n) ==
    \A f \in DOMAIN table :
        IF f \in PerNameFields
        THEN \A s \in DOMAIN table[f] : DOMAIN table[f][s] = 0..(n - 1)
        ELSE DOMAIN table[f] = 0..(n - 1)

\* C13: after a completed run the per-group table has exactly numGroups
\* rows and the per-group-per-time table numGroups x numTimeSteps rows,
\* every pair (g, t) has exactly one per-time row with 'Vortex ID' g and
\* 'Time' t, and per-group row g has 'Vortex ID' g.
C13_TableRows ==
    outcome = "done" =>
        LET numTimeSteps == Len(RunMask)
            perTime      == perGroupDataOut_[1]
        IN  /\ HasRows(dataOut_[1], numGroupsOfRun)
            /\ HasRows(perTime, numGroupsOfRun * numTimeSteps)
            /\ \A g \in RunGroups : \A t \in 0..(numTimeSteps - 1) :
                  Cardinality({r \in DOMAIN perTime.VortexID :
                                  perTime.VortexID[r] = g /\ perTime.Time[r] = t}) = 1
            /\ \A g \in RunGroups : dataOut_[1].VortexID[g] = g

\* a completed run of several groups over MaxTime timesteps
C13_SeveralRows ==
    /\ outcome = "done"
    /\ numGroupsOfRun >= 2
    /\ Len(RunMask) = MaxTime
    /\ Cardinality(DOMAIN perGroupDataOut_[1].Time) = numGroupsOfRun * MaxTime

\* what a run started in the current state produces on a build whose
\* undefined behaviour comes out as ub
RerunOf(ub) ==
    RunResult(maskVolumeIn_[1], scalarVolumesIn_[1], topScalarVolumesIn_[1],
              vorticesIn_[1], Len(scalarNames_), Len(topScalarNames_),
              skipLastGroup_, ensembleMember_, ub)

ReachedNameCountAssertion == outcome \in {"asserted", "done", "crashed"}

\* the declared names are as many as the components of the volumes
NamesMatchComponents ==
    /\ Len(scalarNames_) = RunScalars[1].comps
    /\ Len(topScalarNames_) = topScalarVolumesIn_[1].comps

\* C15: whenever the number of declared scalar names equals the component
\* count of the scalar volumes and the number of declared top-scalar names
\* equals the component count of the surface volume, the name-count
\* assertion of process() holds.
C15_NameCountAssertionHolds ==
    (ReachedNameCountAssertion /\ NamesMatchComponents) =>
        /\ NameCountAssertion(RunScalars[1].comps, topScalarVolumesIn_[1].comps,
                              Len(scalarNames_), Len(topScalarNames_))
        /\ outcome # "asserted"

\* the component count the scalar name list is to follow
ScalarComponentCount ==
    IF scalarVolumesIn_ = <<>> \/ scalarVolumesIn_[1] = <<>> THEN 0
    ELSE scalarVolumesIn_[1][1].comps

\* the component count the top-scalar name list is to follow
TopScalarComponentCount ==
    IF topScalarVolumesIn_ = <<>> THEN 0 ELSE topScalarVolumesIn_[1].comps

\* whether the entries of before that remain in after are where they were
KeepPosition(before, after) ==
    \A i \in 1..Min2(Len(before), Len(after)) : after[i] = before[i]

\* C16: after every change event of the scalar inport scalarNames_ has as
\* many entries as the first scalar volume has components (0 without data
\* or with an empty series) and the entries that remain keep their
\* position; the same for topScalarNames_ and the surface volume.
C16_NamesFollowComponents ==
    [][/\ Len(scalarNames_') = ScalarComponentCount'
       /\ KeepPosition(scalarNames_, scalarNames_')
       /\ Len(topScalarNames_') = TopScalarComponentCount'
       /\ KeepPosition(topScalarNames_, topScalarNames_')]_vars

\* both lists shortened to one entry below the largest count
C16_ListsResized ==
    /\ ScalarComponentCount = MaxComps - 1
    /\ scalarNames_ = [k \in 1..(MaxComps - 1) |-> k - 1]
    /\ Len(scalarVolumesIn_[1]) = 2
    /\ scalarVolumesIn_[1][2].comps = MaxComps
    /\ TopScalarComponentCount = MaxComps - 1
    /\ topScalarNames_ = [k \in 1..(MaxComps - 1) |-> k - 1]

\* C17: every run that produces output has processed a series in which
\* every mask volume and every scalar volume of every timestep has the
\* dimensions of the first mask volume.
C17_UniformDimensions ==
    outcome = "done" =>
        \A t \in 1..Len(RunMask) :
            /\ RunMask[t].dims = RunMask[1].dims
            /\ RunScalars[t].dims = RunMask[1].dims

\* the voxels of timestep t whose mask id is v
VoxelsWithId(t, v) ==
    {i \in VoxelIds(RunMask[t + 1].dims) : RunMask[t + 1].data[i] = v}

\* C18: every voxel whose mask id v satisfies 1 <= v <= numGroups is
\* attributed to group index v - 1: after a completed run every group, the
\* last one included, that has such a voxel has counted voxels and a start
\* time within the series.
C18_EveryGroupAccumulates ==
    outcome = "done" =>
        \A v \in 1..numGroupsOfRun : \A t \in 0..(Len(RunMask) - 1) :
            VoxelsWithId(t, v) # {} =>
                /\ dataOut_[1].NumVoxels[v - 1] > 0
                /\ dataOut_[1].StartTime[v - 1] <= t

\* the values the last run fixed before its loops
RunK ==
    [numGroups |-> numGroupsOfRun, numTimeSteps |-> Len(RunMask),
     volumeDims |-> RunMask[1].dims,
     numScalars |-> RunScalars[1].comps, numTopScalars |-> topScalarVolumesIn_[1].comps,
     nNames |-> Len(scalarNames_), nTopNames |-> Len(topScalarNames_)]

\* the inputs of the last run
RunIn ==
    [mask |-> RunMask, scal |-> RunScalars, top |-> topScalarVolumesIn_[1],
     vort |-> RunVortices]

\* the voxels of timestep t whose mask value is 0 or at or above numGroups
UntrackedVoxels(t) ==
    {i \in VoxelIds(RunMask[t + 1].dims) :
        RunMask[t + 1].data[i] = 0 \/ RunMask[t + 1].data[i] >= numGroupsOfRun}

\* a run about to visit a voxel with the columns cols
AtColumns(cols) ==
    [g |-> cols.g, gt |-> cols.gt, prev |-> Column(numGroupsOfRun, <<0, 0>>),
     status |-> "ok", warn |-> FALSE, trace |-> <<>>]

\* the callback of voxel i of timestep t leaves the columns cols as they are
LeavesColumns(cols, t, i, ub) ==
    indexCallback(AtColumns(cols), RunIn, RunK, t,
                  VoxelAt(i, RunMask[t + 1].dims), ub) = AtColumns(cols)

\* C19: a voxel whose mask value is 0 or at or above numGroups changes no
\* cell of any column of either table during the voxel pass: its callback
\* leaves the columns of before and of after each voxel pass of a run as
\* they are, and a pass over such voxels only ends with the columns it
\* started with.
C19_UntrackedVoxelChangesNothing ==
    \A k \in 1..Len(trace) :
        LET e == trace[k]
        IN  e.phase = "voxels" =>
                /\ \A i \in UntrackedVoxels(e.time), ub \in UBOutcomes :
                      /\ LeavesColumns(e.pre, e.time, i, ub)
                      /\ LeavesColumns(e, e.time, i, ub)
                /\ UntrackedVoxels(e.time) = VoxelIds(RunMask[e.time + 1].dims) =>
                      (e.status = "ok" /\ e.g = e.pre.g /\ e.gt = e.pre.gt)

\* a completed run whose volume holds a background voxel, a voxel with the
\* id numGroups and a voxel of a tracked group
C19_UntrackedVoxelsVisited ==
    /\ outcome = "done"
    /\ numGroupsOfRun >= 2
    /\ VoxelsWithId(0, 0) # {}
    /\ VoxelsWithId(0, numGroupsOfRun) # {}
    /\ VoxelsOfGroup(0, 0) # {}
    /\ \E k \in 1..Len(trace) : trace[k].phase = "voxels" /\ trace[k].time = 0

\* the samples of the first scalar over the voxels of group g at timestep t
SamplesOfGroup(t, g) == {RunScalars[t + 1].data[i][1] : i \in VoxelsOfGroup(t, g)}

\* C20: a min or max field that starts unset holds min(v1..vn) respectively
\* max(v1..vn) after the values v1..vn were observed for it: after every
\* voxel pass that ran through, the 'Min' and 'Max' cells of the first
\* scalar in the per-time row of a group are the smallest and the largest
\* sample over the group's voxels of that timestep.
C20_MinMaxOverSamples ==
    \A k \in 1..Len(trace) :
        LET e == trace[k]
        IN  (e.phase = "voxels" /\ e.status = "ok") =>
                \A g \in RunGroups :
                    LET samples == SamplesOfGroup(e.time, g)
                        row     == numGroupsOfRun * e.time + g
                    IN  samples # {} =>
                            /\ e.gt.Min[0][row] = MinOfSet(samples)
                            /\ e.gt.Max[0][row] = MaxOfSet(samples)

\* the surface sample of channel s that voxel i of timestep t reads
SurfaceSample(t, i, s) ==
    LET pos == VoxelAt(i, RunMask[t + 1].dims)
    IN  Sample(topScalarVolumesIn_[1], <<pos[1], pos[2], t>>, s)

\* of the samples of the voxels S in visiting order, the one of largest
\* absolute magnitude, the earliest among equals
RECURSIVE ExtremeOf(_, _, _)
ExtremeOf(S, t, s) ==
    LET last == MaxOfSet(S)
        v    == SurfaceSample(t, last, s)
    IN  IF S = {last} THEN v
        ELSE LET before == ExtremeOf(S \ {last}, t, s)
             IN  IF Abs(v) > Abs(before) THEN v ELSE before

\* C21: after the voxel pass of timestep t, for every group g with at least
\* one seed-depth voxel and every top-scalar channel s, the 'Extreme' cell
\* of (g, t) holds the surface sample of largest absolute magnitude among
\* g's seed-depth voxels at t, the first visited among equals.
C21_ExtremeOfSurface ==
    \A k \in 1..Len(trace) :
        LET e == trace[k]
        IN  (e.phase = "voxels" /\ e.status = "ok") =>
                \A g \in RunGroups : \A s \in DOMAIN e.gt.TopExtreme :
                    LET S   == SurfaceVoxelsOfGroup(e.time, g)
                        row == numGroupsOfRun * e.time + g
                    IN  S # {} => e.gt.TopExtreme[s][row] = ExtremeOf(S, e.time, s)

\* whether row r of a table is the same in the columns a and b
SameRow(a, b, r) ==
    \A f \in DOMAIN a :
        IF f \in PerNameFields
        THEN \A s \in DOMAIN a[f] : a[f][s][r] = b[f][s][r]
        ELSE a[f][r] = b[f][r]

\* the history entries of the finalize step of group g at timestep t
GroupSteps(t, g) ==
    {k \in 1..Len(trace) :
        trace[k].phase = "group" /\ trace[k].time = t /\ trace[k].group = g}

\* the finalize step e, of a group without a record on the seed depth,
\* leaves the group's shape, rotation, centers and travelled distance alone
LeavesGroupAlone(e) ==
    LET g   == e.group
        row == numGroupsOfRun * e.time + g
    IN  /\ \A f \in {"AspectRatio", "AvgRadius", "Rotation", "StartX", "StartY",
                     "EndX", "EndY", "Travel"} : e.g[f][g] = e.pre.g[f][g]
        /\ \A f \in {"AspectRatio", "AvgRadius", "CenterX", "CenterY"} :
              e.gt[f][row] = e.pre.gt[f][row]

\* the finalize step e changes no row of another group
AddsNothingToOthers(e) ==
    /\ \A h \in RunGroups \ {e.group} : SameRow(e.g, e.pre.g, h)
    /\ \A r \in DOMAIN e.gt.Time :
          r # numGroupsOfRun * e.time + e.group => SameRow(e.gt, e.pre.gt, r)

\* every other group of timestep t went through its finalize step
OthersFinalized(t, g) ==
    \A h \in RunGroups \ {g} : \E k \in GroupSteps(t, h) : trace[k].status = "ok"

\* C22: for a group g without a vortex record on the seed depth, the
\* finalize pass of every timestep leaves g's aspect ratio, average radius,
\* rotation, center, start and end center and travelled distance unchanged
\* and adds nothing of g to any parent, while every other group of that
\* timestep is still finalized.
C22_MissingRecordSkipsGroupOnly ==
    \A k \in 1..Len(trace) :
        LET e == trace[k]
        IN  (e.phase = "group" /\ e.status = "ok" /\ SeedRecordOf(e.group) = 0) =>
                /\ LeavesGroupAlone(e)
                /\ AddsNothingToOthers(e)
                /\ OthersFinalized(e.time, e.group)

\* the part of C22 about the group itself and its parents
C22_SkippedGroupUntouched ==
    \A k \in 1..Len(trace) :
        LET e == trace[k]
        IN  (e.phase = "group" /\ e.status = "ok" /\ SeedRecordOf(e.group) = 0) =>
                (LeavesGroupAlone(e) /\ AddsNothingToOthers(e))

\* the columns after the voxel pass of timestep t
AfterVoxelPass(t) ==
    {k \in 1..Len(trace) :
        trace[k].phase = "voxels" /\ trace[k].time = t /\ trace[k].status = "ok"}

\* the columns after the finalize pass of timestep t: after the step of
\* group 0, the last of the sweep
AfterFinalizePass(t) == {k \in GroupSteps(t, 0) : trace[k].status = "ok"}

\* C23: for groups c > b > a with b the parent of c and a the parent of b,
\* after the finalize pass of timestep t the per-group and the per-time
\* voxel count of a include the voxels of c at t: the pass raises both by
\* at least the number of voxels of c.
C23_GrandchildReachesAncestor ==
    \A a, b, c \in RunGroups : \A t \in 0..(Len(RunMask) - 1) :
        (a < b /\ b < c /\ ParentNamedBy(c) = b /\ ParentNamedBy(b) = a) =>
            \A k \in AfterVoxelPass(t), m \in AfterFinalizePass(t) :
                LET n == Cardinality(VoxelsOfGroup(t, c))
                    r == numGroupsOfRun * t + a
                IN  /\ trace[m].g.NumVoxels[a] >= trace[k].g.NumVoxels[a] + n
                    /\ trace[m].gt.NumVoxels[r] >= trace[k].gt.NumVoxels[r] + n

\* the life time of group g over the series of the last run: its last
\* accepted timestep minus its first (0 for a group never seen)
LifeTimeOf(g) ==
    LET times == AcceptedTimes(g, Len(RunMask) - 1)
    IN  IF times = {} THEN 0 ELSE MaxOfSet(times) - MinOfSet(times)

\* C24: for every group with nonzero lifetime, the per-group 'Surface Avg
\* Radius' and 'Surface Aspect Ratio' after the final pass are the averages
\* of the per-timestep values accumulated for the group: the run of a
\* series in which a group has a nonzero lifetime ends with the final
\* pass, and the two cells then hold the accumulated sum divided by the
\* number of timesteps that contributed, which for the record on the seed
\* depth, the same at every timestep, is the record's value.
C24_TrueAverages ==
    outcome \in {"done", "threw"} =>
        \A g \in RunGroups :
            (LifeTimeOf(g) # 0 /\ SeedRecordOf(g) # 0) =>
                /\ outcome = "done"
                /\ dataOut_[1].AvgRadius[g] = RInt(SeedVortexOf(g).avgRadius)
                /\ SeedVortexOf(g).minRadius # 0 =>
                      dataOut_[1].AspectRatio[g]
                        = Rat(SeedVortexOf(g).maxRadius, SeedVortexOf(g).minRadius)

\* no published table has a group with a life time other than 0
C24_LifeTimeAlwaysZero ==
    dataOut_ # <<>> => \A g \in DOMAIN dataOut_[1].LifeTime : dataOut_[1].LifeTime[g] = 0

\* C25: an evaluation of process() with the trigger pending and a required
\* input missing leaves the trigger pending; nothing but a run clears a
\* pending trigger, so it is still pending at the first later evaluation
\* with all inputs present, which performs the run without a new Assemble
\* action; a run aborted by the dimension check consumes the trigger.
C25_TriggerSurvivesMissingInput ==
    [][/\ (Evaluated /\ doAssemble_ /\ SomeInputMissing) =>
              (doAssemble_' /\ outcome' \notin RunOutcomes)
       /\ (doAssemble_ /\ ~doAssemble_') => outcome' \in RunOutcomes
       /\ (Evaluated /\ doAssemble_ /\ ~SomeInputMissing) =>
              /\ outcome' \in RunOutcomes
              /\ ~doAssemble_'
              /\ DimensionsDiffer => outcome' = "dimwarn"]_vars

\* an evaluation found the hierarchy missing, the other inputs present, and
\* left the trigger pending
C25_PendingAfterSkip ==
    /\ outcome = "skipped"
    /\ doAssemble_
    /\ ~MaskAbsentOrEmpty
    /\ ~ScalarsAbsentOrMismatched
    /\ Len(topScalarVolumesIn_) = 1
    /\ Len(vorticesIn_) = 0

\* C26: numGroups of a run never exceeds the group count of the hierarchy,
\* also when the hierarchy has 0 groups with 'skip last group' set or when
\* the range maximum of the last mask volume is 0, so every group index of
\* the finalize pass is a group the hierarchy holds.
C26_NumGroupsWithinHierarchy ==
    outcome \in RunOutcomes =>
        /\ numGroupsOfRun <= RunVortices.numGroups
        /\ \A k \in 1..Len(trace) :
              trace[k].phase = "group" => trace[k].group \in DOMAIN RunVortices.groups


\* ------------------------------------------------------------------ C27
\* C27: every picking index that picking() accepts and stores in
\* pickedNodeIndices_ is smaller than the number of critical points of the
\* complex on the inport, and the lookup of its cell identifier was in
\* range and did not end the program.
C27_PickedIndicesAreCriticalPoints ==
    /\ meshAlive
    /\ lastPick # <<>> => lastPick[1].inRange
    /\ mscInport_ # <<>> =>
           \A k \in DOMAIN pickedNodeIndices_ :
               pickedNodeIndices_[k] < mscInport_[1].numcp

\* ------------------------------------------------------------------ C28
\* the entries of a list
Entries(list) == {list[k] : k \in DOMAIN list}

NoIndexTwice(list) ==
    \A j, k \in DOMAIN list : list[j] = list[k] => j = k

\* the last two toggles had the same index
PickedTwiceInARow == lastPick # <<>> /\ lastPick[1].again

\* C28: pickedNodeIndices_ holds no index twice and holds exactly the
\* indices toggled an odd number of times; after two toggles of the same
\* index in a row the list holds the same indices as before the two, it is
\* the same list when the index was not in it, and an index that was in it
\* has moved to the end.
C28_ToggleKeepsIndices ==
    /\ NoIndexTwice(pickedNodeIndices_)
    /\ Entries(pickedNodeIndices_) = pickedOdd
    /\ PickedTwiceInARow =>
           LET start == lastPick[1].start
               index == lastPick[1].index
           IN  /\ Entries(pickedNodeIndices_) = Entries(start)
               /\ index \notin Entries(start) => pickedNodeIndices_ = start
               /\ index \in Entries(start) =>
                      pickedNodeIndices_ =
                          Append(Erase(start, Find(start, index)), index)

\* an index that was in the list, not at its end, was picked twice in a row
C28_PickedTwiceFromInside ==
    /\ PickedTwiceInARow
    /\ lastPick[1].index \in Entries(lastPick[1].start)
    /\ pickedNodeIndices_ # lastPick[1].start

\* C28 as stated: no index twice, exactly the indices picked an odd number
\* of times, and two picks of the same index in a row restore the list.
C28_TwiceRestoresList ==
    /\ NoIndexTwice(pickedNodeIndices_)
    /\ Entries(pickedNodeIndices_) = pickedOdd
    /\ PickedTwiceInARow => pickedNodeIndices_ = lastPick[1].start

\* ------------------------------------------------------------------ C29
\* no background task is queued or running and no callback is waiting
Quiescent == pool = {} /\ front = <<>>

\* C29: when process() was invoked with different inputs and every
\* background task and front-thread callback has run, the outport holds the
\* complex computed from the input of the last invocation.
C29_OutportHoldsLatest ==
    (Quiescent /\ invoked # <<>> /\ NoIndexTwice(invoked)) =>
        outport_ = <<computeMsc(invoked[Len(invoked)])>>
=============================================================================
